---- MODULE Spec2Model ----
(***************************************************************************)
(* JSON-RPC router of crates/rpc: rpc_handler (the axum HTTP handler) and  *)
(* RpcRouter::run_request, with the method adapters and the error model,   *)
(* and the versioning middleware RpcVersioningService in front of it.      *)
(*                                                                         *)
(* One HTTP request is handled at a time: it is received, the handler      *)
(* gates on the content type, splits the body into one request or a batch, *)
(* and runs every element through run_request; each call of a registered   *)
(* method is an await point of the handler.                                *)
(*                                                                         *)
(* Three specifications share the actions of the handler:                  *)
(*   Spec         requests reach rpc_handler directly, as in the tests of  *)
(*                router.rs; no metrics recorder is installed;             *)
(*   VersionSpec  requests reach the versioning middleware, whose inner    *)
(*                service is rpc_handler on the router of v03.rs;          *)
(*   CountedSpec  a metrics recorder is installed and the router serves a  *)
(*                sequence of requests.                                    *)
(***************************************************************************)
EXTENDS Integers, Sequences, FiniteSets, TLC

VARIABLES
    methods,       \* RpcRouter.methods: method name -> registered handler
    pc,            \* position of the handler task
    contentType,   \* the Content-Type header of the request in flight
    body,          \* the body of the request in flight
    requests,      \* the raw values the handler iterates over
    mode,          \* "single" or "batch": the branch rpc_handler took
    idx,           \* index in `requests` of the element being run
    responses,     \* the `responses` vector of rpc_handler
    origins,       \* history: for each response, the index of its element
    httpResponse,  \* what rpc_handler returned
    events,        \* history: metrics increments and method invocations
    everPanicked,  \* history: some method has panicked on this router
    version,       \* RpcRouter.version: the version label of the metrics
    recorder,      \* a metrics recorder is installed in the process
    counters,      \* the recorder's counters: <<name, method, version>> -> count
    expected,      \* history: the counts the requests received so far call for
    http,          \* the HTTP request as it reached the versioning middleware
    forwards,      \* history: calls of the inner service for this request
    tasks,         \* the requests served concurrently, each with its own state
    mutex          \* the Mutex around the inner service of the middleware

vars == <<methods, pc, contentType, body, requests, mode, idx, responses,
          origins, httpResponse, events, everPanicked, version, recorder,
          counters, expected, http, forwards, tasks, mutex>>

\* the router's configuration besides the method table
config == <<version, recorder>>
\* the metrics
metricVars == <<counters, expected>>
\* the middleware's view of the request
middleware == <<http, forwards>>
\* the requests served side by side
concurrent == <<tasks, mutex>>

---------------------------------------------------------------------------
(* Bounds of the model *)

\* longest batch that is sent
MaxBatch == 3
\* longest batch that is sent with leading whitespace or with a syntax error
MaxOddBatch == 2
\* longest batch that is sent to the router with a metrics recorder
MaxCountedBatch == 2
\* the router with a metrics recorder takes requests until it has been asked
\* for this many calls
MaxCalls == 3
\* longest batch that is sent through the versioning middleware
MaxWireBatch == 2
\* RpcVersioningService.max_request_body_size, in units of body length
MaxRequestBodySize == 2

---------------------------------------------------------------------------
(* JSON values, as far as the router looks into them: a kind and a text *)

J(k, v) == [k |-> k, v |-> v]
Absent == J("absent", "")
Null == J("null", "")
Num(v) == J("num", v)
Str(v) == J("str", v)
EmptyArr == J("arr", "")
Arr(v) == J("arr", v)
Obj(v) == J("obj", v)

\* A JSON value as it stands in a body: an object with the four members the
\* request envelope reads, or a value of another type (t is its type).
Elem(t, j, m, p, i) == [t |-> t, jsonrpc |-> j, method |-> m, params |-> p, id |-> i]
Req(m, p, i) == Elem("object", Str("2.0"), Str(m), p, i)
NumberValue == Elem("number", Absent, Absent, Absent, Absent)
ArrayValue == Elem("array", Absent, Absent, Absent, Absent)

---------------------------------------------------------------------------
(* Error model: jsonrpc/error.rs and error.rs *)

RpcErr(variant, code, text) == [variant |-> variant, code |-> code, text |-> text]
ParseError == RpcErr("ParseError", 0, "")
InvalidRequest == RpcErr("InvalidRequest", 0, "")
MethodNotFound == RpcErr("MethodNotFound", 0, "")
InvalidParams == RpcErr("InvalidParams", 0, "")
InternalError(text) == RpcErr("InternalError", 0, text)
ApplicationError(code, message) == RpcErr("ApplicationError", code, message)

\* RpcError::code
Code(e) ==
    CASE e.variant = "ParseError" -> -32700
      [] e.variant = "InvalidRequest" -> -32600
      [] e.variant = "MethodNotFound" -> -32601
      [] e.variant = "InvalidParams" -> -32602
      [] e.variant = "InternalError" -> -32603
      [] e.variant = "ApplicationError" -> e.code

\* RpcError::message
Message(e) ==
    CASE e.variant = "ParseError" -> "Parse error"
      [] e.variant = "InvalidRequest" -> "Invalid Request"
      [] e.variant = "MethodNotFound" -> "Method not found"
      [] e.variant = "InvalidParams" -> "Invalid params"
      [] e.variant = "InternalError" -> e.text
      [] e.variant = "ApplicationError" -> e.text

\* impl Serialize for RpcError: a map of two entries
Serialize(e) == [code |-> Code(e), message |-> Message(e)]

\* The domain errors (crate::error::RpcError) the registered methods return.
DomainErr(kind, text) == [kind |-> kind, text |-> text, data |-> ""]
BlockNotFound == DomainErr("BlockNotFound", "Block not found")

\* crate::error::RpcError::code
DomainCode(d) ==
    CASE d.kind = "FailedToReceiveTxn" -> 1
      [] d.kind = "NoTraceAvailable" -> 10
      [] d.kind = "ContractNotFound" -> 20
      [] d.kind = "BlockNotFound" -> 24
      [] d.kind = "TxnHashNotFoundV03" -> 25
      [] d.kind = "InvalidTxnHash" -> 25
      [] d.kind = "InvalidBlockHash" -> 26
      [] d.kind = "InvalidTxnIndex" -> 27
      [] d.kind = "ClassHashNotFound" -> 28
      [] d.kind = "TxnHashNotFoundV04" -> 29
      [] d.kind = "PageSizeTooBig" -> 31
      [] d.kind = "NoBlocks" -> 32
      [] d.kind = "InvalidContinuationToken" -> 33
      [] d.kind = "TooManyKeysInFilter" -> 34
      [] d.kind = "ContractError" -> 40
      [] d.kind = "InvalidContractClass" -> 50
      [] d.kind = "ClassAlreadyDeclared" -> 51
      [] d.kind = "InvalidTransactionNonce" -> 52
      [] d.kind = "InsufficientMaxFee" -> 53
      [] d.kind = "InsufficientAccountBalance" -> 54
      [] d.kind = "ValidationFailure" -> 55
      [] d.kind = "CompilationFailed" -> 56
      [] d.kind = "ContractClassSizeIsTooLarge" -> 57
      [] d.kind = "NonAccount" -> 58
      [] d.kind = "DuplicateTransaction" -> 59
      [] d.kind = "CompiledClassHashMismatch" -> 60
      [] d.kind = "UnsupportedTxVersion" -> 61
      [] d.kind = "UnsupportedContractClassVersion" -> 62
      [] d.kind = "UnexpectedError" -> 63
      [] d.kind = "ProofLimitExceeded" -> 10000
      [] d.kind \in {"GatewayError", "Internal"} -> -32603

\* The Display text of a kind, from its #[error("...")] attribute; the two
\* transparent kinds display the error they wrap.
Display(kind) ==
    CASE kind = "FailedToReceiveTxn" ->
            "Failed to write transaction"
      [] kind = "NoTraceAvailable" ->
            "No trace available"
      [] kind = "ContractNotFound" ->
            "Contract not found"
      [] kind = "BlockNotFound" ->
            "Block not found"
      [] kind = "TxnHashNotFoundV03" ->
            "Transaction hash not found"
      [] kind = "InvalidTxnHash" ->
            "Invalid transaction hash"
      [] kind = "InvalidBlockHash" ->
            "Invalid block hash"
      [] kind = "InvalidTxnIndex" ->
            "Invalid transaction index in a block"
      [] kind = "ClassHashNotFound" ->
            "Class hash not found"
      [] kind = "TxnHashNotFoundV04" ->
            "Transaction hash not found"
      [] kind = "PageSizeTooBig" ->
            "Requested page size is too big"
      [] kind = "NoBlocks" ->
            "There are no blocks"
      [] kind = "InvalidContinuationToken" ->
            "The supplied continuation token is invalid or unknown"
      [] kind = "TooManyKeysInFilter" ->
            "Too many keys provided in a filter"
      [] kind = "ContractError" ->
            "Contract error"
      [] kind = "InvalidContractClass" ->
            "Invalid contract class"
      [] kind = "ClassAlreadyDeclared" ->
            "Class already declared"
      [] kind = "InvalidTransactionNonce" ->
            "Invalid transaction nonce"
      [] kind = "InsufficientMaxFee" ->
            "Max fee is smaller than the minimal transaction cost (validation plus fee transfer)"
      [] kind = "InsufficientAccountBalance" ->
            "Account balance is smaller than the transaction's max_fee"
      [] kind = "ValidationFailure" ->
            "Account validation failed"
      [] kind = "CompilationFailed" ->
            "Compilation failed"
      [] kind = "ContractClassSizeIsTooLarge" ->
            "Contract class size it too large"
      [] kind = "NonAccount" ->
            "Sender address in not an account contract"
      [] kind = "DuplicateTransaction" ->
            "A transaction with the same hash already exists in the mempool"
      [] kind = "CompiledClassHashMismatch" ->
            "The compiled class hash did not match the one supplied in the transaction"
      [] kind = "UnsupportedTxVersion" ->
            "The transaction version is not supported"
      [] kind = "UnsupportedContractClassVersion" ->
            "The contract class version is not supported"
      [] kind = "UnexpectedError" ->
            "An unexpected error occurred"
      [] kind = "ProofLimitExceeded" ->
            "Too many storage keys requested"

\* The kinds without fields that show, besides the two transparent ones.
PlainKinds ==
    { "FailedToReceiveTxn",
      "NoTraceAvailable",
      "ContractNotFound",
      "BlockNotFound",
      "TxnHashNotFoundV03",
      "InvalidTxnHash",
      "InvalidBlockHash",
      "InvalidTxnIndex",
      "ClassHashNotFound",
      "TxnHashNotFoundV04",
      "PageSizeTooBig",
      "NoBlocks",
      "InvalidContinuationToken",
      "TooManyKeysInFilter",
      "ContractError",
      "InvalidContractClass",
      "ClassAlreadyDeclared",
      "InvalidTransactionNonce",
      "InsufficientMaxFee",
      "InsufficientAccountBalance",
      "ValidationFailure",
      "CompilationFailed",
      "ContractClassSizeIsTooLarge",
      "NonAccount",
      "DuplicateTransaction",
      "CompiledClassHashMismatch",
      "UnsupportedTxVersion",
      "UnsupportedContractClassVersion",
      "ProofLimitExceeded" }

\* UnexpectedError { data }: the data is not part of the Display text.
UnexpectedError(data) ==
    [kind |-> "UnexpectedError", text |-> Display("UnexpectedError"), data |-> data]

\* The texts of the errors the transparent kinds wrap.
WrappedTexts == { "database disk image is malformed", "error sending request for url" }

\* Every domain error a method can return.
DomainErrors ==
    { DomainErr(k, Display(k)) : k \in PlainKinds }
    \cup { UnexpectedError(data) : data \in { "stack overflow in the VM" } }
    \cup { DomainErr(k, t) : k \in {"GatewayError", "Internal"}, t \in WrappedTexts }

\* Mutant: every domain error becomes an internal error.
FromDomain_collapsed(d) == InternalError(d.text)

\* impl From<E> for jsonrpc::RpcError
FromDomain(d) ==
    IF d.kind \in {"GatewayError", "Internal"}
    THEN InternalError(d.text)
    ELSE ApplicationError(DomainCode(d), d.text)

---------------------------------------------------------------------------
(* Outputs and responses *)

Ok(value) == [tag |-> "ok", value |-> value, err |-> InvalidRequest]
Err(e) == [tag |-> "err", value |-> "", err |-> e]
\* the method's future unwound instead of returning
Panicked == [tag |-> "panic", value |-> "", err |-> InvalidRequest]

\* RpcResponse { output, id } as it is serialized: the id, and either the
\* result or the error object {code, message}.
RpcResponse(output, id) ==
    IF output.tag = "ok"
    THEN [id |-> id, ok |-> TRUE, result |-> output.value, code |-> 0, message |-> ""]
    ELSE [id |-> id, ok |-> FALSE, result |-> "",
          code |-> Serialize(output.err).code, message |-> Serialize(output.err).message]

INVALID_REQUEST == RpcResponse(Err(InvalidRequest), Null)
PARSE_ERROR == RpcResponse(Err(ParseError), Null)
method_not_found(id) == RpcResponse(Err(MethodNotFound), id)

\* What rpc_handler returns: a status and a body that is empty, one response
\* object or an array of response objects.
Http(status, kind, items) == [status |-> status, kind |-> kind, items |-> items]
NoHttp == Http(0, "none", <<>>)
EmptyBody == Http(200, "empty", <<>>)
UnsupportedMediaType == Http(415, "empty", <<>>)
ObjectBody(r) == Http(200, "object", <<r>>)
ArrayBody(rs) == Http(200, "array", rs)

---------------------------------------------------------------------------
(* Request envelope *)

\* Deserialization of RpcRequest: a JSON object with jsonrpc "2.0", a string
\* method, params absent, an array or an object, and id absent, null, a
\* number or a string.
ParseRequest(e) ==
    IF /\ e.t = "object"
       /\ e.jsonrpc = Str("2.0")
       /\ e.method.k = "str"
       /\ e.params.k \in {"absent", "arr", "obj"}
       /\ e.id.k \in {"absent", "null", "num", "str"}
    THEN [ok |-> TRUE, method |-> e.method.v, params |-> e.params, id |-> e.id]
    ELSE [ok |-> FALSE, method |-> "", params |-> Absent, id |-> Absent]

\* RequestId::is_notification
is_notification(id) == id.k = "absent"

\* RawParams::is_empty
is_empty(params) == params.k = "absent" \/ params = EmptyArr

---------------------------------------------------------------------------
(* Method table and adapters *)

\* A registered method: the user function's behaviour behind an adapter.
\* input: the function takes an input; accepts: the params that deserialize
\* into its input type; encodes: its output serializes to a JSON value.
Method(behaviour, value, error, input, accepts, encodes) ==
    [behaviour |-> behaviour, value |-> value, error |-> error,
     input |-> input, accepts |-> accepts, encodes |-> encodes]

\* A function without input behind its adapter.
Handler(behaviour, value, error) == Method(behaviour, value, error, FALSE, {}, TRUE)

\* A function with an input behind its adapter.
InputHandler(behaviour, value, error, accepts, encodes) ==
    Method(behaviour, value, error, TRUE, accepts, encodes)

MethodTable ==
    [m \in {"success", "panic", "fail"} |->
        CASE m = "success" -> Handler("ok", "Success", BlockNotFound)
          [] m = "panic" -> Handler("panic", "", BlockNotFound)
          [] m = "fail" -> Handler("err", "", BlockNotFound)]

\* RawParams::deserialize into the input type of h
deserialize(h, params) ==
    IF params \in h.accepts
    THEN [ok |-> TRUE, err |-> InvalidRequest]
    ELSE [ok |-> FALSE, err |-> InvalidParams]

\* Mutant: an output that does not serialize is an application error.
to_value_application(h) ==
    IF h.encodes THEN Ok(h.value)
    ELSE Err(ApplicationError(63, "key must be a string"))

\* serde_json::to_value(output).map_err(|e| RpcError::InternalError(e.into()))
to_value(h) ==
    IF h.encodes THEN Ok(h.value)
    ELSE Err(InternalError("key must be a string"))

\* The user function runs to its outcome, and its output is serialized.
CallUser(h) ==
    CASE h.behaviour = "ok" -> to_value(h)
      [] h.behaviour = "err" -> Err(FromDomain(h.error))
      [] h.behaviour = "panic" -> Panicked

\* The adapter after its check of the params: the user function is called,
\* and its output, if it returns one, is serialized.
Run(h) == [called |-> TRUE, encoded |-> h.behaviour = "ok", out |-> CallUser(h)]

\* The adapter returns e before it calls the user function.
Refused(e) == [called |-> FALSE, encoded |-> FALSE, out |-> Err(e)]

\* Mutant: the adapter calls the user function whatever the params.
Invoke_unchecked(h, params) == Run(h)

\* RpcMethod::invoke of the adapters: `called` tells whether the user
\* function was called, `encoded` whether its output was handed to
\* to_value, `out` is what invoke returns.
Invoke(h, params) ==
    IF h.input
    THEN IF ~deserialize(h, params).ok
         THEN Refused(deserialize(h, params).err)
         ELSE Run(h)
    ELSE IF ~is_empty(params)
         THEN Refused(InvalidParams)
         ELSE Run(h)

\* Mutant: the method's future is awaited without catch_unwind.
CatchUnwind_missing(result) == result

\* catch_unwind around the method's future, and the match on its result
CatchUnwind(result) ==
    IF result.tag = "panic" THEN Err(InternalError("Internal error")) ELSE result

---------------------------------------------------------------------------
(* HTTP bodies *)

\* lead: whitespace before the first token; top: the body is a JSON array or
\* another value; elems: the elements of the array (or the one value);
\* broken: a syntax error follows the elements.
Body(lead, top, elems, broken) == [lead |-> lead, top |-> top, elems |-> elems, broken |-> broken]

FirstByte(b) ==
    IF b.lead THEN " "
    ELSE IF b.top = "array" THEN "["
    ELSE IF b.elems = <<>> THEN ""
    ELSE IF b.elems[1].t = "object" THEN "{" ELSE "1"

\* serde_json::from_slice::<&RawValue>
ParseRawValue(b) ==
    IF b.broken \/ (b.top = "value" /\ b.elems = <<>>)
    THEN [ok |-> FALSE, values |-> <<>>]
    ELSE IF b.top = "array" THEN [ok |-> TRUE, values |-> <<ArrayValue>>]
    ELSE [ok |-> TRUE, values |-> <<b.elems[1]>>]

\* serde_json::from_slice::<Vec<&RawValue>>
ParseRawValues(b) ==
    IF b.broken \/ b.top # "array"
    THEN [ok |-> FALSE, values |-> <<>>]
    ELSE [ok |-> TRUE, values |-> b.elems]

JsonContentType == "application/json"
ContentTypes == {JsonContentType, "text/plain; charset=utf-8"}

Elems ==
    { Req("success", Absent, Num("1")),
      Req("success", Arr("7"), Str("1")),
      Req("success", EmptyArr, Num("1")),
      Req("success", Absent, Absent),
      Req("panic", Absent, Num("2")),
      Req("panic", EmptyArr, Absent),
      Req("success", Arr("7"), Absent),
      Req("fail", Absent, Null),
      Req("fail", Absent, Absent),
      Req("foobar", Absent, Str("1")),
      Req("foobar", Arr("7"), Absent),
      NumberValue,
      Elem("object", Absent, Absent, Absent, Absent),
      Elem("object", Str("2.0"), Num("1"), Str("bar"), Num("1")) }

\* Objects that carry a well-formed id and are no request for another reason:
\* the method is missing, the method is no string, the version is wrong.
\* They are sent alone.
IdentifiedElems ==
    { Elem("object", Str("2.0"), Absent, Absent, Num("1")),
      Elem("object", Str("2.0"), Absent, Arr("7"), Str("1")),
      Elem("object", Str("2.0"), Num("1"), Absent, Str("1")),
      Elem("object", Str("1.0"), Str("success"), Absent, Num("1")) }

SeqsUpTo(S, n) == UNION { [1..k -> S] : k \in 0..n }

\* The bodies sent: one value or an array of values, with or without leading
\* whitespace, well-formed or cut by a syntax error.
Bodies ==
    { Body(l, "value", es, bk) : l \in BOOLEAN, bk \in BOOLEAN, es \in SeqsUpTo(Elems, 1) }
    \cup { Body(FALSE, "value", <<e>>, FALSE) : e \in IdentifiedElems }
    \cup { Body(FALSE, "array", es, FALSE) : es \in SeqsUpTo(Elems, MaxBatch) }
    \cup { Body(l, "array", es, bk) : l \in BOOLEAN, bk \in BOOLEAN,
                                      es \in SeqsUpTo(Elems, MaxOddBatch) }

---------------------------------------------------------------------------
(* Metrics *)

\* the key of a counter: its name and the labels "method" and "version"
Label(name, m, v) == <<name, m, v>>

NoCounters == [l \in {} |-> 0]

Read(c, l) == IF l \in DOMAIN c THEN c[l] ELSE 0

Inc(c, l) == [k \in DOMAIN c \cup {l} |-> IF k = l THEN Read(c, l) + 1 ELSE c[k]]

\* Mutant: the counter is not touched.
increment_counter_noop(rec, c, l) == c

\* Mutant: only failures are counted.
increment_counter_failures(rec, c, l) ==
    IF rec /\ l[1] = "rpc_method_calls_failed_total" THEN Inc(c, l) ELSE c

\* metrics::increment_counter!: counts on the installed recorder, and does
\* nothing when none is installed.
increment_counter(rec, c, l) == IF rec THEN Inc(c, l) ELSE c

\* The counts a request with content type ct and body b calls for on a
\* router with the method table `table` and the version label v: one call
\* for every element that is a request with an id for a registered method,
\* and one failure for every such call that does not end with a result.
DueCalls(table, b, m) ==
    { i \in 1..Len(b.elems) :
         /\ b.elems[i].t = "object"
         /\ b.elems[i].jsonrpc = Str("2.0")
         /\ b.elems[i].method = Str(m)
         /\ b.elems[i].params.k \in {"absent", "arr", "obj"}
         /\ b.elems[i].id.k \in {"null", "num", "str"} }

DueFailures(table, b, m) ==
    { i \in DueCalls(table, b, m) :
         \/ b.elems[i].params.k # "absent" /\ b.elems[i].params # EmptyArr
         \/ table[m].behaviour # "ok" }

Due(table, v, ct, b) ==
    IF ct # "application/json" \/ b.broken \/ (b.lead /\ b.top = "array")
    THEN NoCounters
    ELSE LET labels == { Label("rpc_method_calls_total", m, v) : m \in DOMAIN table }
                       \cup { Label("rpc_method_calls_failed_total", m, v) : m \in DOMAIN table }
             due == [l \in labels |->
                        IF l[1] = "rpc_method_calls_total"
                        THEN Cardinality(DueCalls(table, b, l[2]))
                        ELSE Cardinality(DueFailures(table, b, l[2]))]
         IN  [l \in { k \in labels : due[k] > 0 } |-> due[l]]

Plus(c, d) == [l \in DOMAIN c \cup DOMAIN d |-> Read(c, l) + Read(d, l)]

\* the calls counted in c, over all methods
Calls(c) ==
    LET RECURSIVE Sum(_)
        Sum(ls) == IF ls = {} THEN 0
                   ELSE LET l == CHOOSE x \in ls : TRUE IN c[l] + Sum(ls \ {l})
    IN  Sum({ l \in DOMAIN c : l[1] = "rpc_method_calls_total" })

---------------------------------------------------------------------------
(* HTTP requests *)

\* size: the length of the body; fault: the transport fails while the body
\* is read.
HttpRequest(method, path, ct, size, fault, b) ==
    [method |-> method, path |-> path, contentType |-> ct, size |-> size,
     fault |-> fault, body |-> b, unserializable |-> FALSE]

\* A request whose rewritten body serde_json::to_vec fails to write.
Unserializable(req) == [req EXCEPT !.unserializable = TRUE]

NoRequest == HttpRequest("", "", "", 0, FALSE, Body(FALSE, "value", <<>>, FALSE))

---------------------------------------------------------------------------
(* The handler *)

\* The mutex around the inner service: the task that holds the guard, and
\* whether a task unwound while it held it.
Mutex(holder, poisoned) == [holder |-> holder, poisoned |-> poisoned]

\* Mutex::new(inner)
Unlocked == Mutex("none", FALSE)

\* Nothing is in flight and nothing has been served.
Silent ==
    /\ pc = "idle"
    /\ contentType = ""
    /\ body = Body(FALSE, "value", <<>>, FALSE)
    /\ requests = <<>>
    /\ mode = "none"
    /\ idx = 0
    /\ responses = <<>>
    /\ origins = <<>>
    /\ httpResponse = NoHttp
    /\ events = <<>>
    /\ everPanicked = FALSE
    /\ counters = NoCounters
    /\ expected = NoCounters
    /\ http = NoRequest
    /\ forwards = 0

\* No request is in flight on this or any other task.
Quiet ==
    /\ Silent
    /\ tasks = <<>>
    /\ mutex = Unlocked

\* The router of the tests of router.rs, served without a metrics recorder.
Init ==
    /\ methods = MethodTable
    /\ version = "vTEST"
    /\ recorder = FALSE
    /\ Quiet

\* A request with content type ct and body b reaches rpc_handler.
Arrive(ct, b) ==
    /\ pc' = "received"
    /\ contentType' = ct
    /\ body' = b
    /\ expected' = IF recorder THEN Plus(expected, Due(methods, version, ct, b)) ELSE expected
    /\ UNCHANGED <<methods, requests, mode, idx, responses, origins,
                   httpResponse, events, everPanicked, config, concurrent, counters>>

\* An HTTP request reaches rpc_handler.
Receive ==
    /\ pc = "idle"
    /\ \E ct \in ContentTypes, b \in Bodies : Arrive(ct, b)
    /\ UNCHANGED middleware

Finish(resp) ==
    /\ pc' = "done"
    /\ httpResponse' = resp

\* rpc_handler up to its first call of run_request: the content-type gate,
\* the single/batch split on the first byte, and the parse into raw values.
Return(resp) == [done |-> TRUE, resp |-> resp, mode |-> "none", values |-> <<>>]
\* Mutant: the loop takes the values from the last to the first.
Iterate_reversed(m, values) ==
    [done |-> FALSE, resp |-> NoHttp, mode |-> m,
     values |-> [i \in 1..Len(values) |-> values[Len(values) + 1 - i]]]
Iterate(m, values) == [done |-> FALSE, resp |-> NoHttp, mode |-> m, values |-> values]

\* Mutant: the content type is not looked at.
content_type_any(ct) == TRUE

\* "Only json content allowed."
content_type_allowed(ct) == ct = JsonContentType

\* The branch for one request: the body is one raw value.
SingleBranch(b) ==
    IF ~ParseRawValue(b).ok
    THEN Return(ObjectBody(PARSE_ERROR))
    ELSE Iterate("single", ParseRawValue(b).values)

\* Mutant: an empty vector goes through the loop, which leaves `responses` empty.
BatchBranch_noEmptyCheck(b) ==
    IF ~ParseRawValues(b).ok
    THEN Return(ObjectBody(PARSE_ERROR))
    ELSE IF ParseRawValues(b).values = <<>>
    THEN Return(EmptyBody)
    ELSE Iterate("batch", ParseRawValues(b).values)

\* Mutant: the elements before a syntax error are run.
BatchBranch_lenient(b) ==
    IF b.top # "array"
    THEN Return(ObjectBody(PARSE_ERROR))
    ELSE IF b.elems = <<>>
    THEN Return(ObjectBody(IF b.broken THEN PARSE_ERROR ELSE INVALID_REQUEST))
    ELSE Iterate("batch", b.elems)

\* The branch for a batch: the body is a vector of raw values, not empty.
BatchBranch(b) ==
    IF ~ParseRawValues(b).ok
    THEN Return(ObjectBody(PARSE_ERROR))
    ELSE IF ParseRawValues(b).values = <<>>
    THEN Return(ObjectBody(INVALID_REQUEST))
    ELSE Iterate("batch", ParseRawValues(b).values)

\* Mutant: the clone of the router has lost a method.
Clone_forgetful(table) == [m \in DOMAIN table \ {"success"} |-> table[m]]

\* The clone of the router rpc_handler gets as its state: `methods` is a
\* shared reference to the table leaked by build, so the clone has the table
\* of the router it was cloned from.
Clone(table) == table

\* rpc_handler on a request with content type ct and body b
Split(ct, b) ==
    IF ~content_type_allowed(ct)
    THEN Return(UnsupportedMediaType)
    ELSE IF FirstByte(b) # "["
    THEN SingleBranch(b)
    ELSE BatchBranch(b)

HandlerSplit == Split(contentType, body)

Handle ==
    /\ pc = "received"
    /\ IF HandlerSplit.done
       THEN /\ Finish(HandlerSplit.resp)
            /\ UNCHANGED <<requests, mode, idx>>
       ELSE /\ pc' = "run"
            /\ requests' = HandlerSplit.values
            /\ mode' = HandlerSplit.mode
            /\ idx' = 1
            /\ UNCHANGED httpResponse
    /\ methods' = Clone(methods)
    /\ UNCHANGED <<contentType, body, responses, origins, events, everPanicked,
                   config, concurrent, metricVars, middleware>>

\* Mutant: a batch without responses is answered with the array [].
Assemble_emptyArray(m, rs) ==
    IF m = "single"
    THEN IF rs = <<>> THEN EmptyBody ELSE ObjectBody(rs[1])
    ELSE ArrayBody(rs)

\* What rpc_handler returns once the last call of run_request is over.
Assemble(m, rs) ==
    IF m = "single"
    THEN IF rs = <<>> THEN EmptyBody ELSE ObjectBody(rs[1])
    ELSE IF rs = <<>> THEN EmptyBody ELSE ArrayBody(rs)

\* Mutant: the response is put in front of the earlier ones.
Push_front(rs, out) == out \o rs

\* responses.push(response), when run_request returned one
Push(rs, out) == rs \o out

\* The handler after run_request returned `out` (<<>> for None, <<r>> for
\* Some(r)): push the response, then go to the next element or return.
Continue(out) ==
    /\ responses' = Push(responses, out)
    /\ origins' = Push(origins, IF out = <<>> THEN <<>> ELSE <<idx>>)
    /\ IF mode = "batch" /\ idx < Len(requests)
       THEN /\ pc' = "run"
            /\ idx' = idx + 1
            /\ UNCHANGED httpResponse
       ELSE /\ Finish(Assemble(mode, Push(responses, out)))
            /\ UNCHANGED idx

\* Mutant: an element that does not parse is skipped.
Unparsed_skipped(e) == <<>>

\* Mutant: the error for an element that does not parse echoes the element's id.
Unparsed_echo(e) == <<RpcResponse(Err(InvalidRequest), IF e.id.k = "absent" THEN Null ELSE e.id)>>

\* run_request, the request does not parse: Some(INVALID_REQUEST)
Unparsed(e) == <<INVALID_REQUEST>>

\* Mutant: the notification check is missing.
Ignored_never(request) == FALSE

\* run_request, "Ignore notification requests."
Ignored(request) == is_notification(request.id)

\* Mutant: a request for an unknown method is dropped.
Unknown_dropped(request) == <<>>

\* Mutant: an unknown method is answered as an invalid request.
Unknown_invalid(request) == <<RpcResponse(Err(InvalidRequest), request.id)>>

\* run_request, the method is not in the table: Some(method_not_found(id))
Unknown(request) == <<method_not_found(request.id)>>

\* run_request up to the await of the method: parse, notification check and
\* lookup. `call` tells whether the method is invoked; otherwise `out` is what
\* run_request returns.
Dispatch(table, e) ==
    LET request == ParseRequest(e) IN
    IF ~request.ok
    THEN [call |-> FALSE, out |-> Unparsed(e)]
    ELSE IF Ignored(request)
    THEN [call |-> FALSE, out |-> <<>>]
    ELSE IF request.method \notin DOMAIN table
    THEN [call |-> FALSE, out |-> Unknown(request)]
    ELSE [call |-> TRUE, out |-> <<>>]

Total(m) == <<"rpc_method_calls_total", m>>
Failed(m) == <<"rpc_method_calls_failed_total", m>>
Invoked(m) == <<"invoke", m>>
Called(m) == <<"call", m>>
Encoded(m) == <<"encode", m>>
Returned(m) == <<"response", m>>

\* Mutant: the call is counted after the method is invoked.
BeforeAwait_invokeFirst(m) == <<Invoked(m), Total(m)>>

\* run_request from the lookup hit to the await: the call is counted, then
\* the method is invoked.
BeforeAwait(m) == <<Total(m), Invoked(m)>>

\* run_request after the await: the adapter has called the user function or
\* not and has serialized its output or not; a failure is counted, then the
\* response is built and returned.
AfterAwait(m, invoked, failed) ==
    (IF invoked.called THEN <<Called(m)>> ELSE <<>>)
    \o (IF invoked.encoded THEN <<Encoded(m)>> ELSE <<>>)
    \o (IF failed THEN <<Failed(m)>> ELSE <<>>)
    \o <<Returned(m)>>

\* run_request returns without calling a method.
RunRequestReturn ==
    /\ pc = "run"
    /\ ~Dispatch(methods, requests[idx]).call
    /\ Continue(Dispatch(methods, requests[idx]).out)
    /\ UNCHANGED <<methods, contentType, body, requests, mode, events, everPanicked,
                   config, concurrent, metricVars, middleware>>

\* run_request finds the method, counts the call and invokes it.
RunRequestInvoke ==
    /\ pc = "run"
    /\ Dispatch(methods, requests[idx]).call
    /\ pc' = "invoking"
    /\ events' = events \o BeforeAwait(ParseRequest(requests[idx]).method)
    /\ counters' = increment_counter(recorder, counters,
                                     Label("rpc_method_calls_total",
                                           ParseRequest(requests[idx]).method, version))
    /\ UNCHANGED <<methods, contentType, body, requests, mode, idx, responses,
                   origins, httpResponse, everPanicked, config, concurrent, expected, middleware>>

\* The method's future completes (or unwinds); run_request builds the response.
RunRequestComplete ==
    /\ pc = "invoking"
    /\ LET request == ParseRequest(requests[idx])
           invoked == Invoke(methods[request.method], request.params)
           result == invoked.out
           output == CatchUnwind(result)
       IN  /\ everPanicked' = (everPanicked \/ result.tag = "panic")
           /\ IF output.tag = "panic"
              THEN \* the panic unwinds out of run_request and rpc_handler
                   /\ pc' = "crashed"
                   /\ UNCHANGED <<idx, responses, origins, httpResponse, events, counters>>
              ELSE /\ events' = events \o AfterAwait(request.method, invoked,
                                                       output.tag = "err")
                   /\ counters' = IF output.tag = "err"
                                  THEN increment_counter(recorder, counters,
                                          Label("rpc_method_calls_failed_total",
                                                request.method, version))
                                  ELSE counters
                   /\ Continue(<<RpcResponse(output, request.id)>>)
    /\ UNCHANGED <<methods, contentType, body, requests, mode, config, concurrent,
                   expected, middleware>>

\* The response is sent; the router waits for the next request.
Reset ==
    /\ pc = "done"
    /\ pc' = "idle"
    /\ contentType' = ""
    /\ body' = Body(FALSE, "value", <<>>, FALSE)
    /\ requests' = <<>>
    /\ mode' = "none"
    /\ idx' = 0
    /\ responses' = <<>>
    /\ origins' = <<>>
    /\ httpResponse' = NoHttp
    /\ events' = <<>>
    /\ http' = NoRequest
    /\ forwards' = 0
    /\ UNCHANGED <<methods, everPanicked, config, concurrent, metricVars>>

Next ==
    \/ Receive
    \/ Handle
    \/ RunRequestReturn
    \/ RunRequestInvoke
    \/ RunRequestComplete
    \/ Reset

Spec == Init /\ [][Next]_vars

---------------------------------------------------------------------------
(* The router with a metrics recorder, serving a sequence of requests *)

\* Domain errors of the internal kinds, with different texts.
InternalErrors ==
    { DomainErr("Internal", "database disk image is malformed"),
      DomainErr("Internal", "unable to open database file"),
      DomainErr("GatewayError", "error sending request for url") }

\* The table of the tests with one more method, which fails with d.
TableFailing(d) ==
    [m \in DOMAIN MethodTable \cup {"internal"} |->
        IF m = "internal" THEN Handler("err", "", d) ELSE MethodTable[m]]

CountedElems ==
    { Req("success", Absent, Num("1")),
      Req("success", Arr("7"), Str("1")),
      Req("panic", EmptyArr, Num("2")),
      Req("internal", Absent, Null),
      Req("foobar", Absent, Str("1")),
      Req("success", Absent, Absent),
      NumberValue }

CountedBodies ==
    { Body(FALSE, "value", es, bk) : bk \in BOOLEAN, es \in SeqsUpTo(CountedElems, 1) }
    \cup { Body(FALSE, "array", es, FALSE) : es \in SeqsUpTo(CountedElems, MaxCountedBatch) }

CountedInit ==
    /\ methods \in { TableFailing(d) : d \in InternalErrors }
    /\ version = "vTEST"
    /\ recorder = TRUE
    /\ Quiet

\* An HTTP request reaches rpc_handler.
ReceiveCounted ==
    /\ pc = "idle"
    /\ Calls(expected) < MaxCalls
    /\ \E ct \in ContentTypes, b \in CountedBodies : Arrive(ct, b)
    /\ UNCHANGED middleware

CountedNext ==
    \/ ReceiveCounted
    \/ Handle
    \/ RunRequestReturn
    \/ RunRequestInvoke
    \/ RunRequestComplete
    \/ Reset

CountedSpec == CountedInit /\ [][CountedNext]_vars

---------------------------------------------------------------------------
(* The router with methods behind every adapter, failing with every domain
   error *)

\* the longest batch sent to the router of the adapters
MaxAdapterBatch == 2

\* The params that deserialize into SubtractInput: two numbers by position
\* or by name.
SubtractInput == { Arr("42,23"), Obj("minuend:42,subtrahend:23") }

\* The router of the specification tests, with a function that fails with
\* d behind each kind of adapter and a function whose output cannot be
\* serialized.
AdapterTable(d) ==
    [m \in {"subtract", "get_data", "rejecting", "unencodable", "fail"} |->
        CASE m = "subtract" -> InputHandler("ok", "19", d, SubtractInput, TRUE)
          [] m = "get_data" -> Handler("ok", "hello,5", d)
          [] m = "rejecting" -> InputHandler("err", "", d, SubtractInput, TRUE)
          [] m = "unencodable" -> InputHandler("ok", "", d, SubtractInput, FALSE)
          [] m = "fail" -> Handler("err", "", d)]

AdapterElems ==
    { Req("subtract", Arr("42,23"), Num("2")),
      Req("subtract", Obj("minuend:42,subtrahend:23"), Num("3")),
      Req("subtract", Arr("7"), Num("1")),
      Req("subtract", Absent, Str("1")),
      Req("rejecting", Arr("42,23"), Num("1")),
      Req("rejecting", Arr("7"), Str("1")),
      Req("unencodable", Arr("42,23"), Null),
      Req("unencodable", Absent, Num("1")),
      Req("fail", Absent, Num("1")),
      Req("get_data", EmptyArr, Num("1")),
      Req("subtract", Arr("42,23"), Absent),
      Req("foobar", Absent, Str("1")) }

AdapterBodies ==
    { Body(FALSE, "value", <<e>>, FALSE) : e \in AdapterElems }
    \cup { Body(FALSE, "array", es, FALSE) : es \in SeqsUpTo(AdapterElems, MaxAdapterBatch) }

AdapterInit ==
    /\ methods \in { AdapterTable(d) : d \in DomainErrors }
    /\ version = "vTEST"
    /\ recorder = FALSE
    /\ Quiet

\* An HTTP request reaches rpc_handler.
ReceiveAdapter ==
    /\ pc = "idle"
    /\ \E ct \in ContentTypes, b \in AdapterBodies : Arrive(ct, b)
    /\ UNCHANGED middleware

AdapterNext ==
    \/ ReceiveAdapter
    \/ Handle
    \/ RunRequestReturn
    \/ RunRequestInvoke
    \/ RunRequestComplete
    \/ Reset

AdapterSpec == AdapterInit /\ [][AdapterNext]_vars

---------------------------------------------------------------------------
(* Requests served side by side on clones of one router *)

\* the longest batch sent by a concurrent client
MaxConcurrentBatch == 2

\* The tasks of the worker pool that serve a request each.
TaskIds == {"a", "b"}

\* The state of one call of rpc_handler: its arguments and its locals.
Task(p, ct, b, m, values, i, rs, resp) ==
    [pc |-> p, contentType |-> ct, body |-> b, mode |-> m, requests |-> values,
     idx |-> i, responses |-> rs, httpResponse |-> resp]

IdleTask == Task("idle", "", Body(FALSE, "value", <<>>, FALSE), "none", <<>>, 0, <<>>, NoHttp)

ConcurrentElems ==
    { Req("success", Absent, Num("1")),
      Req("fail", Absent, Str("1")),
      Req("panic", EmptyArr, Num("2")),
      Req("success", Absent, Absent),
      NumberValue }

ConcurrentBodies ==
    { Body(FALSE, "value", <<e>>, FALSE) : e \in ConcurrentElems }
    \cup { Body(FALSE, "array", es, FALSE) : es \in SeqsUpTo(ConcurrentElems, MaxConcurrentBatch) }

\* Every variable of the handler that serves one request at a time.
sequential ==
    <<methods, pc, contentType, body, requests, mode, idx, responses, origins,
      httpResponse, events, everPanicked, version, recorder, counters, expected,
      http, forwards>>

ConcurrentInit ==
    /\ methods = MethodTable
    /\ version = "vTEST"
    /\ recorder = FALSE
    /\ Silent
    /\ tasks = [t \in TaskIds |-> IdleTask]
    /\ mutex = Unlocked

\* Mutant: the tasks push into one vector.
Local_shared(ts, t) == ts[CHOOSE u \in DOMAIN ts : u # t].responses \o ts[t].responses

\* `let mut responses = Vec::new()`: the vector of task t is a local of its
\* call of rpc_handler.
Local(ts, t) == ts[t].responses

\* The task after run_request returned `out`: push, then the next element or
\* the response.
TaskContinue(ts, t, out) ==
    LET task == ts[t]
        rs == Push(Local(ts, t), out)
    IN  IF task.mode = "batch" /\ task.idx < Len(task.requests)
        THEN [task EXCEPT !.pc = "run", !.idx = task.idx + 1, !.responses = rs]
        ELSE [task EXCEPT !.pc = "done", !.responses = rs,
                          !.httpResponse = Assemble(task.mode, rs)]

\* A request reaches rpc_handler on task t.
TaskReceive(t) ==
    /\ tasks[t].pc = "idle"
    /\ \E b \in ConcurrentBodies :
          tasks' = [tasks EXCEPT ![t] = [IdleTask EXCEPT !.pc = "received",
                                                        !.contentType = JsonContentType,
                                                        !.body = b]]
    /\ UNCHANGED <<sequential, mutex>>

\* rpc_handler up to the first call of run_request.
TaskHandle(t) ==
    /\ tasks[t].pc = "received"
    /\ LET split == Split(tasks[t].contentType, tasks[t].body) IN
       tasks' = [tasks EXCEPT ![t] =
                    IF split.done
                    THEN [@ EXCEPT !.pc = "done", !.httpResponse = split.resp]
                    ELSE [@ EXCEPT !.pc = "run", !.requests = split.values,
                                   !.mode = split.mode, !.idx = 1]]
    /\ UNCHANGED <<sequential, mutex>>

\* run_request returns without calling a method.
TaskReturn(t) ==
    /\ tasks[t].pc = "run"
    /\ ~Dispatch(Clone(methods), tasks[t].requests[tasks[t].idx]).call
    /\ tasks' = [tasks EXCEPT ![t] =
                    TaskContinue(tasks, t,
                                 Dispatch(Clone(methods), tasks[t].requests[tasks[t].idx]).out)]
    /\ UNCHANGED <<sequential, mutex>>

\* run_request finds the method and invokes it; the task waits for it.
TaskInvoke(t) ==
    /\ tasks[t].pc = "run"
    /\ Dispatch(Clone(methods), tasks[t].requests[tasks[t].idx]).call
    /\ tasks' = [tasks EXCEPT ![t].pc = "invoking"]
    /\ UNCHANGED <<sequential, mutex>>

\* The method's future completes or unwinds; run_request builds the response.
TaskComplete(t) ==
    /\ tasks[t].pc = "invoking"
    /\ LET request == ParseRequest(tasks[t].requests[tasks[t].idx])
           output == CatchUnwind(Invoke(Clone(methods)[request.method], request.params).out)
       IN  tasks' = [tasks EXCEPT ![t] =
                        IF output.tag = "panic"
                        THEN [@ EXCEPT !.pc = "crashed"]
                        ELSE TaskContinue(tasks, t, <<RpcResponse(output, request.id)>>)]
    /\ UNCHANGED <<sequential, mutex>>

\* The response is sent; the task is free for the next request.
TaskReset(t) ==
    /\ tasks[t].pc = "done"
    /\ tasks' = [tasks EXCEPT ![t] = IdleTask]
    /\ UNCHANGED <<sequential, mutex>>

ConcurrentNext ==
    \/ \E t \in TaskIds : TaskReceive(t)
    \/ \E t \in TaskIds : TaskHandle(t)
    \/ \E t \in TaskIds : TaskReturn(t)
    \/ \E t \in TaskIds : TaskInvoke(t)
    \/ \E t \in TaskIds : TaskComplete(t)
    \/ \E t \in TaskIds : TaskReset(t)

ConcurrentSpec == ConcurrentInit /\ [][ConcurrentNext]_vars

---------------------------------------------------------------------------
(* The versioning middleware: versioning.rs *)

\* The paths RpcVersioningService::call matches.
Routes ==
    { "/", "/rpc/v0.2", "/rpc/v0.2/", "/rpc/v0.3", "/rpc/v0.3/",
      "/rpc/pathfinder/v0.1", "/rpc/pathfinder/v0.1/" }

\* Mutant: only the paths without a trailing slash have pairs.
Prefixes_slashless(path) ==
    CASE path \in {"/", "/rpc/v0.2"} ->
            << <<"starknet_", "v0.2_">>, <<"pathfinder_", "v0.1_">> >>
      [] path = "/rpc/v0.3" -> << <<"starknet_", "v0.3_">> >>
      [] path = "/rpc/pathfinder/v0.1" -> << <<"pathfinder_", "v0.1_">> >>
      [] OTHER -> <<>>

\* The (old, new) pairs of a path call matches.
Prefixes(path) ==
    CASE path \in {"/", "/rpc/v0.2", "/rpc/v0.2/"} ->
            << <<"starknet_", "v0.2_">>, <<"pathfinder_", "v0.1_">> >>
      [] path \in {"/rpc/v0.3", "/rpc/v0.3/"} ->
            << <<"starknet_", "v0.3_">> >>
      [] path \in {"/rpc/pathfinder/v0.1", "/rpc/pathfinder/v0.1/"} ->
            << <<"pathfinder_", "v0.1_">> >>

\* Mutant: the pattern may stand anywhere in the name.
starts_with_anywhere(name, pat) ==
    \E k \in 1..(Len(name) - Len(pat) + 1) : SubSeq(name, k, k + Len(pat) - 1) = pat

\* str::starts_with
starts_with(name, pat) ==
    Len(name) >= Len(pat) /\ SubSeq(name, 1, Len(pat)) = pat

\* Mutant: the new prefix takes the place of the old one.
prefix_method_replacing(method, prefixes) ==
    LET hits == { k \in 1..Len(prefixes) : starts_with(method, prefixes[k][1]) }
        first == CHOOSE k \in hits : \A l \in hits : k <= l
    IN  IF hits = {} THEN method
        ELSE prefixes[first][2]
                \o SubSeq(method, Len(prefixes[first][1]) + 1, Len(method))

\* The loop of prefix_method from the k-th pair on.
RECURSIVE prefix_from(_, _, _)
prefix_from(method, prefixes, k) ==
    IF k > Len(prefixes) THEN method
    ELSE IF starts_with(method, prefixes[k][1])
    THEN prefixes[k][2] \o method
    ELSE prefix_from(method, prefixes, k + 1)

\* prefix_method: the new name of request.method
prefix_method(method, prefixes) == prefix_from(method, prefixes, 1)

\* Deserialization of jsonrpsee::types::Request: an object with jsonrpc
\* "2.0", an id that is null, a number or a string, a string method and
\* optional params.
ParseJsonrpsee(e) ==
    /\ e.t = "object"
    /\ e.jsonrpc = Str("2.0")
    /\ e.id.k \in {"null", "num", "str"}
    /\ e.method.k = "str"

\* serde_json::from_slice::<Request>(&body)
FromSliceRequest(b) ==
    ~b.broken /\ b.top = "value" /\ Len(b.elems) = 1 /\ ParseJsonrpsee(b.elems[1])

\* serde_json::from_slice::<Vec<Request>>(&body)
FromSliceBatch(b) ==
    ~b.broken /\ b.top = "array" /\ \A i \in 1..Len(b.elems) : ParseJsonrpsee(b.elems[i])

\* The request with its method renamed, and the body serialized again from
\* the renamed requests.
Renamed(e, prefixes) == [e EXCEPT !.method = Str(prefix_method(e.method.v, prefixes))]
\* Mutant: only the first request of a batch is renamed.
ToVec_firstOnly(b, prefixes) ==
    Body(FALSE, b.top,
         [i \in 1..Len(b.elems) |->
             IF i = 1 THEN Renamed(b.elems[i], prefixes) ELSE b.elems[i]],
         FALSE)
ToVec(b, prefixes) ==
    Body(FALSE, b.top, [i \in 1..Len(b.elems) |-> Renamed(b.elems[i], prefixes)], FALSE)

FirstNonWhitespace(b) ==
    IF b.top = "array" THEN "["
    ELSE IF b.elems = <<>> THEN ""
    ELSE IF b.elems[1].t = "object" THEN "{" ELSE "1"

\* jsonrpsee's read_body: the size check, the read of the body, and the
\* single/batch decision on the first byte that is not whitespace.
ReadBody(err, is_single) == [err |-> err, is_single |-> is_single]
\* Mutant: a failure of the transport goes unnoticed.
read_body_trusting(req, max) ==
    IF req.size > max THEN ReadBody("TooLarge", FALSE)
    ELSE ReadBody("none", FirstNonWhitespace(req.body) = "{")
read_body(req, max) ==
    IF req.size > max THEN ReadBody("TooLarge", FALSE)
    ELSE IF req.fault THEN ReadBody("Inner", FALSE)
    ELSE IF FirstNonWhitespace(req.body) \notin {"{", "["} THEN ReadBody("Malformed", FALSE)
    ELSE ReadBody("none", FirstNonWhitespace(req.body) = "{")

\* mod response
TEXT == "text/plain"
JSON == "application/json; charset=utf-8"

canonical_reason(code) ==
    CASE code = 404 -> "Not Found"
      [] code = 405 -> "Method Not Allowed"

with_canonical_reason(code) ==
    [status |-> code, kind |-> "text", items |-> <<canonical_reason(code)>>,
     contentType |-> TEXT]

\* ErrorResponse::borrowed(error, Id::Null)
with_error(status, code, message) ==
    [status |-> status, kind |-> "object",
     items |-> << [id |-> Null, ok |-> FALSE, result |-> "", code |-> code,
                   message |-> message] >>,
     contentType |-> JSON]

not_found == with_canonical_reason(404)
too_large(limit) == with_error(413, -32701, "Request is too big")
malformed == with_error(400, -32700, "Parse error")
internal == with_error(500, -32603, "Internal error")

\* What call does with req: it answers, it unwinds, or it calls the inner
\* service with a body.
Respond(resp) == [kind |-> "respond", resp |-> resp, body |-> Body(FALSE, "value", <<>>, FALSE)]
Unwind == [kind |-> "panic", resp |-> NoHttp, body |-> Body(FALSE, "value", <<>>, FALSE)]
CallInner(b) == [kind |-> "forward", resp |-> NoHttp, body |-> b]

\* Mutant: an unknown path is served like "/".
Route_lenient(req) == [found |-> TRUE, prefixes |-> Prefixes("/")]

\* The match on the path of a POST.
Route(req) ==
    IF req.path \in Routes
    THEN [found |-> TRUE, prefixes |-> Prefixes(req.path)]
    ELSE [found |-> FALSE, prefixes |-> <<>>]

\* The match on the result of serde_json::to_vec: the inner service is
\* called with the rewritten body, or the failure is answered.
Reserialized(req, prefixes) ==
    IF req.unserializable
    THEN Respond(internal)
    ELSE CallInner(ToVec(req.body, prefixes))

\* Mutant: a body that is too large is read like any other.
Rewrite_unlimited(req, prefixes, max) ==
    IF req.fault THEN Respond(internal)
    ELSE IF FirstNonWhitespace(req.body) \notin {"{", "["} THEN Respond(malformed)
    ELSE IF FirstNonWhitespace(req.body) = "{"
    THEN IF FromSliceRequest(req.body) THEN Reserialized(req, prefixes) ELSE Unwind
    ELSE IF FromSliceBatch(req.body) THEN Reserialized(req, prefixes) ELSE Unwind

\* The future call returns for a POST to a path with prefixes.
Rewrite(req, prefixes, max) ==
    LET read == read_body(req, max) IN
    IF read.err = "TooLarge" THEN Respond(too_large(max))
    ELSE IF read.err = "Malformed" THEN Respond(malformed)
    ELSE IF read.err = "Inner" THEN Respond(internal)
    ELSE IF read.is_single
    THEN IF FromSliceRequest(req.body) THEN Reserialized(req, prefixes) ELSE Unwind
    ELSE IF FromSliceBatch(req.body) THEN Reserialized(req, prefixes) ELSE Unwind

\* Mutant: a request that is not a POST is answered with 404.
NonPost_not_found(req) == Respond(not_found)

\* call, the request is not a POST: call_inner with the request as it came
NonPost(req) == CallInner(req.body)

\* RpcVersioningService::call
Versioning(req, max) ==
    IF req.method = "POST"
    THEN IF ~Route(req).found
         THEN Respond(not_found)
         ELSE Rewrite(req, Route(req).prefixes, max)
    ELSE NonPost(req)

\* The router of v03.rs; the user functions are not among the sources and
\* are taken to return a result.
register_routes ==
    [m \in { "starknet_blockHashAndNumber", "starknet_blockNumber", "starknet_chainId",
             "starknet_pendingTransactions", "starknet_syncing",
             "pathfinder_getProof", "pathfinder_getTransactionStatus" } |->
        Handler("ok", "result", BlockNotFound)]

\* The inner service answers a request that is not a POST: the route of
\* rpc_handler is a POST route.
MethodNotAllowed == Http(405, "empty", <<>>)

WireElems ==
    { Req("starknet_chainId", Absent, Num("1")),
      Req("pathfinder_getProof", EmptyArr, Str("1")),
      Req("v0.3_starknet_chainId", Absent, Num("2")),
      Req("pathfinder_starknet_chainId", Absent, Null),
      Req("starknet_chainId", Absent, Absent),
      NumberValue,
      Elem("object", Absent, Absent, Absent, Absent) }

WireBodies ==
    { Body(FALSE, "value", es, bk) : bk \in BOOLEAN, es \in SeqsUpTo(WireElems, 1) }
    \cup { Body(l, "array", es, FALSE) : l \in BOOLEAN, es \in SeqsUpTo(WireElems, 1) }
    \cup { Body(FALSE, "array", es, FALSE) : es \in SeqsUpTo(WireElems, MaxWireBatch) }

Paths == Routes \cup { "/rpc/v0.4", "/rpc" }

\* The requests sent: every body as a JSON POST within the size limit to
\* every path, and the bodies of one value with every HTTP method, content
\* type and size, and with a transport that fails.
HttpRequests ==
    { HttpRequest("POST", p, JsonContentType, MaxRequestBodySize, FALSE, b) :
         p \in Paths, b \in WireBodies }
    \cup { HttpRequest(m, p, ct, sz, FALSE, Body(FALSE, "value", es, FALSE)) :
             m \in {"POST", "GET"}, p \in Paths, ct \in ContentTypes,
             sz \in {MaxRequestBodySize, MaxRequestBodySize + 1},
             es \in SeqsUpTo(WireElems, 1) }
    \cup { HttpRequest("POST", p, JsonContentType, MaxRequestBodySize, TRUE,
                       Body(FALSE, "value", es, FALSE)) :
             p \in Paths, es \in SeqsUpTo(WireElems, 1) }
    \cup { Unserializable(HttpRequest("POST", p, JsonContentType, MaxRequestBodySize,
                                      FALSE, Body(FALSE, top, es, FALSE))) :
             p \in Paths, top \in {"value", "array"}, es \in SeqsUpTo(WireElems, 1) }

VersionInit ==
    /\ methods = register_routes
    /\ version = "v0.3"
    /\ recorder = FALSE
    /\ Quiet

\* An HTTP request reaches the versioning middleware.
Send ==
    /\ pc = "idle"
    /\ pc' = "arrived"
    /\ \E r \in HttpRequests : http' = r
    /\ UNCHANGED <<methods, contentType, body, requests, mode, idx, responses,
                   origins, httpResponse, events, everPanicked, config, concurrent,
                   metricVars, forwards>>

\* RpcVersioningService::call and the future it returns, up to the response
\* of the middleware or the call of the inner service.
Call ==
    /\ pc = "arrived"
    /\ LET did == Versioning(http, MaxRequestBodySize) IN
       CASE did.kind = "respond" ->
               /\ Finish(did.resp)
               /\ UNCHANGED <<contentType, body, forwards, expected>>
         [] did.kind = "panic" ->
               /\ pc' = "crashed"
               /\ UNCHANGED <<contentType, body, forwards, expected, httpResponse>>
         [] did.kind = "forward" /\ http.method = "POST" ->
               /\ forwards' = forwards + 1
               /\ contentType' = http.contentType
               /\ body' = did.body
               /\ pc' = "received"
               /\ UNCHANGED <<expected, httpResponse>>
         [] did.kind = "forward" /\ http.method # "POST" ->
               /\ forwards' = forwards + 1
               /\ contentType' = http.contentType
               /\ body' = did.body
               /\ Finish(MethodNotAllowed)
               /\ UNCHANGED expected
    /\ UNCHANGED <<methods, requests, mode, idx, responses, origins, events,
                   everPanicked, config, concurrent, counters, http>>

VersionNext ==
    \/ Send
    \/ Call
    \/ Handle
    \/ RunRequestReturn
    \/ RunRequestInvoke
    \/ RunRequestComplete
    \/ Reset

VersionSpec == VersionInit /\ [][VersionNext]_vars

---------------------------------------------------------------------------
(* Properties *)

\* The elements run_request has returned for.
Handled == IF pc = "done" THEN 1..Len(requests) ELSE 1..(idx - 1)

\* The positions in `responses` of the responses element i produced.
ResponsesOf(i) == { k \in 1..Len(origins) : origins[k] = i }

IsCallable(e) == ParseRequest(e).ok /\ ~is_notification(ParseRequest(e).id)
IsNotification(e) == ParseRequest(e).ok /\ is_notification(ParseRequest(e).id)
IsMalformed(e) == ~ParseRequest(e).ok

\* The handler returned a body built from the responses of run_request.
Answered == pc = "done" /\ mode # "none"

\* C1: every request that parses and carries an id (number, string or null),
\* sent alone or as an element of a batch, gets exactly one response, with the
\* request's id, whatever the outcome of its method; the response is in the
\* body the handler returns.
C1_OneResponseWithId ==
    /\ pc # "crashed"
    /\ \A i \in Handled :
          IsCallable(requests[i]) =>
             /\ Cardinality(ResponsesOf(i)) = 1
             /\ \A k \in ResponsesOf(i) : responses[k].id = requests[i].id
    /\ Answered =>
          /\ httpResponse.items = responses
          /\ mode = "single" /\ responses # <<>> => httpResponse.kind = "object"
          /\ mode = "batch" /\ responses # <<>> => httpResponse.kind = "array"

\* A batch was answered in which the five outcomes of a callable request occur
\* with the ids null, 1, "1" and 2.
C1_Witness ==
    /\ Answered /\ mode = "batch" /\ everPanicked
    /\ \E k \in 1..Len(responses) : responses[k].ok /\ responses[k].id = Num("1")
    /\ \E k \in 1..Len(responses) : responses[k].code = -32603 /\ responses[k].id = Num("2")
    /\ \E k \in 1..Len(responses) : responses[k].code = -32601 /\ responses[k].id = Str("1")

\* C2: a valid request without an id gets no response, whether or not its
\* method is registered and its params fit: alone it yields an empty body, in
\* a batch it adds nothing to the response array.
C2_NotificationSilent ==
    /\ \A i \in Handled : IsNotification(requests[i]) => ResponsesOf(i) = {}
    /\ Answered /\ mode = "single" /\ IsNotification(requests[1]) =>
          httpResponse.kind = "empty" /\ httpResponse.items = <<>>
    /\ Answered /\ mode = "batch" =>
          /\ Len(httpResponse.items) = Len(origins)
          /\ \A k \in 1..Len(origins) : ~IsNotification(requests[origins[k]])

\* A batch was answered that holds a notification of a registered method with
\* params it does not take, a notification of an unknown method, and a
\* callable request.
C2_Witness ==
    /\ Answered /\ mode = "batch" /\ httpResponse.kind = "array"
    /\ \E i \in 1..Len(requests) : requests[i] = Req("success", Arr("7"), Absent)
    /\ \E i \in 1..Len(requests) : requests[i] = Req("foobar", Arr("7"), Absent)

\* The id a response to element e carries.
ResponseId(e) == IF ParseRequest(e).ok THEN e.id ELSE Null

\* C3: the responses of a batch stand in the returned array in the order of
\* the elements that produced them, notifications elided.
C3_BatchOrder ==
    Answered /\ mode = "batch" /\ httpResponse.kind = "array" =>
       /\ Len(httpResponse.items) = Len(origins)
       /\ \A k \in 1..Len(origins) :
             /\ origins[k] \in 1..Len(body.elems)
             /\ httpResponse.items[k] = responses[k]
             /\ httpResponse.items[k].id = ResponseId(body.elems[origins[k]])
       /\ \A k, l \in 1..Len(origins) : k < l => origins[k] < origins[l]

\* A batch of three was answered whose middle element is a notification and
\* whose outer elements have different ids.
C3_Witness ==
    /\ Answered /\ mode = "batch"
    /\ origins = <<1, 3>>
    /\ httpResponse.items[1].id # httpResponse.items[2].id

Count(P(_), es) == Cardinality({ i \in 1..Len(es) : P(es[i]) })

\* C4 as stated: the response array of a non-empty batch is as long as the
\* batch has callable elements.
C4_LengthIsCallables ==
    Answered /\ mode = "batch" /\ httpResponse.kind = "array" =>
       Len(httpResponse.items) = Count(IsCallable, body.elems)

\* C4 amended: the response array of a non-empty batch is as long as the batch
\* has elements that are not notifications, that is callable elements plus
\* elements that are not valid requests; a batch with such an element is
\* answered with an array.
C4_LengthIsNonNotifications ==
    Answered /\ mode = "batch" =>
       /\ httpResponse.kind = "array" =>
             Len(httpResponse.items) =
                Count(IsCallable, body.elems) + Count(IsMalformed, body.elems)
       /\ Count(IsCallable, body.elems) + Count(IsMalformed, body.elems) > 0 =>
             httpResponse.kind = "array"

\* A batch with a callable element, a notification and an element that is
\* not a request was answered.
C4_Witness ==
    /\ Answered /\ mode = "batch" /\ httpResponse.kind = "array"
    /\ Count(IsCallable, body.elems) = 1
    /\ Count(IsNotification, body.elems) = 1
    /\ Count(IsMalformed, body.elems) = 1

\* What run_request returns for element e run on its own: <<>> or <<r>>.
Alone(e) ==
    IF Dispatch(methods, e).call
    THEN <<RpcResponse(CatchUnwind(Invoke(methods[ParseRequest(e).method],
                                           ParseRequest(e).params).out),
                       ParseRequest(e).id)>>
    ELSE Dispatch(methods, e).out

\* The responses element i produced, in order.
ProducedBy(i) == SelectSeq([k \in 1..Len(origins) |-> <<origins[k], responses[k]>>],
                           LAMBDA p : p[1] = i)

\* C5: in a batch that is valid JSON, an element that is not a valid request
\* yields exactly one response, InvalidRequest (-32600) with id null, at the
\* place of the element among the responses, and every other element is
\* answered as it is when run on its own, so as if the element were absent.
C5_MalformedElementIsolated ==
    Answered /\ mode = "batch" =>
       \A i \in 1..Len(requests) :
          IsMalformed(requests[i]) =>
             /\ Cardinality(ResponsesOf(i)) = 1
             /\ \A k \in ResponsesOf(i) :
                   /\ httpResponse.items[k] =
                         [id |-> Null, ok |-> FALSE, result |-> "",
                          code |-> -32600, message |-> "Invalid Request"]
                   /\ k = 1 + Cardinality({ j \in 1..(i - 1) : ~IsNotification(requests[j]) })
             /\ \A j \in 1..Len(requests) :
                   j # i =>
                      /\ Len(ProducedBy(j)) = Len(Alone(requests[j]))
                      /\ \A n \in 1..Len(ProducedBy(j)) :
                            ProducedBy(j)[n][2] = Alone(requests[j])[n]

\* A batch was answered whose second element has a well-formed id but a
\* method that is not a string, between two callable requests.
C5_Witness ==
    /\ Answered /\ mode = "batch" /\ Len(requests) = 3
    /\ IsCallable(requests[1]) /\ IsCallable(requests[3])
    /\ requests[2] = Elem("object", Str("2.0"), Num("1"), Str("bar"), Num("1"))
    /\ Len(httpResponse.items) = 3

\* C6: the empty batch [] is answered with one InvalidRequest object
\* (-32600, "Invalid Request", id null), not with an array, and no method is
\* invoked.
C6_EmptyBatch ==
    pc = "done" /\ content_type_allowed(contentType)
       /\ body.top = "array" /\ body.elems = <<>> /\ ~body.broken =>
          /\ httpResponse.kind = "object"
          /\ httpResponse.items =
                << [id |-> Null, ok |-> FALSE, result |-> "",
                    code |-> -32600, message |-> "Invalid Request"] >>
          /\ events = <<>>

\* The body [] was answered.
C6_Witness ==
    /\ pc = "done" /\ contentType = JsonContentType
    /\ body = Body(FALSE, "array", <<>>, FALSE)
    /\ httpResponse.kind = "object"

\* The user function behind element e panics when e is run.
Panics(e) ==
    /\ Dispatch(methods, e).call
    /\ Invoke(methods[ParseRequest(e).method], ParseRequest(e).params).out.tag = "panic"

\* C7: a method that panics yields exactly one response for its request,
\* InternalError (-32603, "Internal error") with the request's id; the panic
\* does not leave the router, and every later element of the batch and every
\* later request is answered as it is when no method has panicked.
C7_PanicContained ==
    /\ pc # "crashed"
    /\ \A i \in Handled :
          Panics(requests[i]) =>
             /\ Cardinality(ResponsesOf(i)) = 1
             /\ \A k \in ResponsesOf(i) :
                   responses[k] = [id |-> requests[i].id, ok |-> FALSE, result |-> "",
                                   code |-> -32603, message |-> "Internal error"]
    /\ everPanicked =>
          \A i \in Handled :
             ~Panics(requests[i]) =>
                /\ Len(ProducedBy(i)) = Len(Alone(requests[i]))
                /\ \A n \in 1..Len(ProducedBy(i)) :
                      ProducedBy(i)[n][2] = Alone(requests[i])[n]
    /\ Answered => httpResponse.items = responses

\* A batch was answered in which a request for a panicking method is followed
\* by a request for a method that succeeds.
C7_Witness ==
    /\ Answered /\ mode = "batch" /\ Len(requests) = 2
    /\ Panics(requests[1])
    /\ Len(httpResponse.items) = 2
    /\ httpResponse.items[2] = [id |-> Num("1"), ok |-> TRUE, result |-> "Success",
                                code |-> 0, message |-> ""]

\* C8: a callable request for a method that is not in the table is answered
\* with MethodNotFound (-32601, "Method not found") and its own id, and no
\* handler is invoked for it.
C8_MethodNotFound ==
    /\ \A i \in Handled :
          IsCallable(requests[i]) /\ requests[i].method.v \notin DOMAIN methods =>
             /\ Cardinality(ResponsesOf(i)) = 1
             /\ \A k \in ResponsesOf(i) :
                   responses[k] = [id |-> requests[i].id, ok |-> FALSE, result |-> "",
                                   code |-> -32601, message |-> "Method not found"]
    /\ \A n \in 1..Len(events) : events[n][2] \in DOMAIN methods
    /\ Cardinality({ n \in 1..Len(events) : events[n][1] = "invoke" }) =
          Cardinality({ i \in 1..Len(requests) :
                           /\ i \in Handled \/ (pc = "invoking" /\ i = idx)
                           /\ IsCallable(requests[i])
                           /\ requests[i].method.v \in DOMAIN methods })

\* A single request for the unknown method foobar with id "1" was answered.
C8_Witness ==
    /\ Answered /\ mode = "single"
    /\ requests[1] = Req("foobar", Absent, Str("1"))
    /\ httpResponse.kind = "object"
    /\ events = <<>>

\* C9: a body that is not valid JSON, be it one request or a batch, is
\* answered with one ParseError object (-32700, "Parse error", id null); no
\* element is run, not even a well-formed one before the syntax error.
C9_ParseError ==
    pc = "done" /\ content_type_allowed(contentType) /\ body.broken =>
       /\ httpResponse.kind = "object"
       /\ httpResponse.items =
             << [id |-> Null, ok |-> FALSE, result |-> "",
                 code |-> -32700, message |-> "Parse error"] >>
       /\ requests = <<>> /\ responses = <<>> /\ events = <<>>

\* A batch that begins with a well-formed callable request for a registered
\* method and then breaks off was answered.
C9_Witness ==
    /\ pc = "done" /\ contentType = JsonContentType
    /\ body.broken /\ body.top = "array" /\ ~body.lead
    /\ Len(body.elems) = 2
    /\ body.elems[1] = Req("success", Absent, Num("1"))

\* C10: a request whose Content-Type is not application/json is answered
\* with 415 and no JSON-RPC envelope before the body is looked at: nothing is
\* parsed, no method is invoked and no metric is emitted, whatever the body.
C10_UnsupportedMediaType ==
    pc = "done" /\ contentType # "application/json" =>
       /\ httpResponse.status = 415
       /\ httpResponse.kind = "empty" /\ httpResponse.items = <<>>
       /\ mode = "none" /\ requests = <<>> /\ responses = <<>> /\ events = <<>>

\* A well-formed callable request for a registered method was sent as
\* text/plain and answered.
C10_Witness ==
    /\ pc = "done" /\ contentType = "text/plain; charset=utf-8"
    /\ body = Body(FALSE, "value", <<Req("success", Absent, Num("1"))>>, FALSE)

\* The elements run_request has returned for that are callable requests for
\* a registered method.
Dispatched == { i \in Handled : Dispatch(methods, requests[i]).call }

\* C11: a method registered without input, asked for with params absent or
\* an empty positional list, has its user function called and the request is
\* answered with that function's outcome; asked for with any other params it
\* is answered with InvalidParams (-32602, "Invalid params") and the user
\* function is not called.
C11_NoInputParams ==
    /\ \A i \in Dispatched :
          LET request == ParseRequest(requests[i])
              h == methods[request.method]
          IN  /\ Cardinality(ResponsesOf(i)) = 1
              /\ \A k \in ResponsesOf(i) :
                    IF request.params.k = "absent" \/ request.params = EmptyArr
                    THEN /\ h.behaviour = "ok" =>
                               responses[k] = [id |-> request.id, ok |-> TRUE, result |-> h.value,
                                               code |-> 0, message |-> ""]
                         /\ h.behaviour # "ok" => ~responses[k].ok
                    ELSE responses[k] = [id |-> request.id, ok |-> FALSE, result |-> "",
                                         code |-> -32602, message |-> "Invalid params"]
    /\ \A m \in DOMAIN methods :
          Cardinality({ n \in 1..Len(events) : events[n] = Called(m) }) =
             Cardinality({ i \in Dispatched :
                              /\ ParseRequest(requests[i]).method = m
                              /\ \/ ParseRequest(requests[i]).params.k = "absent"
                                 \/ ParseRequest(requests[i]).params = EmptyArr })

\* A batch was answered that asks for the method success without params, with
\* the params [] and with the params [7].
C11_Witness ==
    /\ Answered /\ mode = "batch"
    /\ requests = << Req("success", Absent, Num("1")),
                     Req("success", EmptyArr, Num("1")),
                     Req("success", Arr("7"), Str("1")) >>
    /\ events = << Total("success"), Invoked("success"), Called("success"),
                   Encoded("success"), Returned("success"),
                   Total("success"), Invoked("success"), Called("success"),
                   Encoded("success"), Returned("success"),
                   Total("success"), Invoked("success"), Failed("success"),
                   Returned("success") >>
    /\ httpResponse.items[3].code = -32602

\* C12: a request for a method that fails with a domain error of the gateway
\* or internal kind is answered with the code -32603 and the message
\* "Internal error", whatever the text of the domain error: the response is
\* the same in two runs that differ in that text only.
C12_InternalErrorHidden ==
    \A i \in Dispatched :
       LET request == ParseRequest(requests[i])
           h == methods[request.method]
       IN  /\ is_empty(request.params)
           /\ h.behaviour = "err"
           /\ h.error.kind \in {"GatewayError", "Internal"}
           => \A k \in ResponsesOf(i) :
                 responses[k] = [id |-> request.id, ok |-> FALSE, result |-> "",
                                 code |-> -32603, message |-> "Internal error"]

\* The middleware has called the inner service with a rewritten body.
Rewritten == http.method = "POST" /\ forwards = 1

\* old is a prefix of the name m.
IsPrefix(old, m) == \E n \in 0..Len(m) : SubSeq(m, 1, n) = old

\* The name the prefix pairs of a path give the name m.
NewName(m, pairs) ==
    LET hits == { k \in 1..Len(pairs) : IsPrefix(pairs[k][1], m) } IN
    IF hits = {} THEN m
    ELSE LET first == CHOOSE k \in hits : \A l \in hits : k <= l
         IN  pairs[first][2] \o m

\* C13: in the body the middleware forwards for a POST to a recognized path,
\* every request has the name its wire name m is given by the first pair
\* (old, new) of the path with old a prefix of m, namely new followed by the
\* whole of m, and m itself when no pair matches; no second pair is applied.
C13_FirstPrefixPrepended ==
    Rewritten =>
       /\ http.path \in Routes
       /\ Len(body.elems) = Len(http.body.elems)
       /\ \A i \in 1..Len(body.elems) :
             /\ body.elems[i].method.k = "str"
             /\ body.elems[i].method.v =
                   NewName(http.body.elems[i].method.v, Prefixes(http.path))
             /\ \/ body.elems[i].method.v = http.body.elems[i].method.v
                \/ \E k \in 1..Len(Prefixes(http.path)) :
                      body.elems[i].method.v =
                         Prefixes(http.path)[k][2] \o http.body.elems[i].method.v

\* A batch POSTed to / was forwarded in which the first pair renamed one
\* request and the second pair another, whose name holds the first old
\* prefix further in.
C13_Witness ==
    /\ Rewritten /\ http.path = "/"
    /\ Len(body.elems) = 2
    /\ http.body.elems[1].method.v = "starknet_chainId"
    /\ body.elems[1].method.v = "v0.2_starknet_chainId"
    /\ http.body.elems[2].method.v = "pathfinder_starknet_chainId"
    /\ body.elems[2].method.v = "v0.1_pathfinder_starknet_chainId"

\* C14: the rewrite of a path applied to a body the middleware has rewritten
\* for that path changes no name.
C14_RewriteIdempotent ==
    Rewritten =>
       /\ \A i \in 1..Len(body.elems) :
             prefix_method(body.elems[i].method.v, Prefixes(http.path))
                = body.elems[i].method.v
       /\ ToVec(body, Prefixes(http.path)) = body

\* A request POSTed to /rpc/v0.3 was forwarded under a new name.
C14_Witness ==
    /\ Rewritten /\ http.path = "/rpc/v0.3"
    /\ Len(body.elems) = 1
    /\ http.body.elems[1].method.v = "starknet_chainId"
    /\ body.elems[1].method.v # http.body.elems[1].method.v

\* C15: the keys of the method table of the v0.3 routes carry the version
\* prefix, and a request for starknet_chainId POSTed to /rpc/v0.3 is, under
\* its rewritten name, found in that table and answered by its handler.
C15_RewrittenNameDispatched ==
    Rewritten /\ http.path \in {"/rpc/v0.3", "/rpc/v0.3/"} =>
       \A i \in Handled :
          /\ http.body.elems[i].method.v = "starknet_chainId"
          /\ IsCallable(requests[i])
          => /\ requests[i].method.v = "v0.3_starknet_chainId"
             /\ requests[i].method.v \in DOMAIN methods
             /\ \A k \in ResponsesOf(i) :
                   responses[k].ok /\ responses[k].code # -32601

\* C16: a POST to a path the middleware does not match is answered with
\* 404, a text/plain body "Not Found", and the inner service is not called.
C16_UnknownPathNotFound ==
    http.method = "POST" /\ http.path \notin Routes /\ pc # "arrived" =>
       /\ pc = "done"
       /\ httpResponse = [status |-> 404, kind |-> "text", items |-> <<"Not Found">>,
                          contentType |-> "text/plain"]
       /\ forwards = 0
       /\ mode = "none" /\ requests = <<>> /\ events = <<>>

\* A well-formed request for a registered method was POSTed to /rpc/v0.4 and
\* answered.
C16_Witness ==
    /\ pc = "done" /\ http.method = "POST" /\ http.path = "/rpc/v0.4"
    /\ http.body = Body(FALSE, "value", <<Req("starknet_chainId", Absent, Num("1"))>>, FALSE)
    /\ http.size <= MaxRequestBodySize /\ http.contentType = JsonContentType

\* C17 as stated: a request that is not a POST is answered by the middleware
\* with 404 and the text/plain body "Not Found", on every path.
C17_NonPostNotFound ==
    http.method \notin {"", "POST"} /\ pc = "done" =>
       /\ httpResponse.status = 404
       /\ httpResponse.kind = "text" /\ httpResponse.items = <<"Not Found">>
       /\ forwards = 0

\* C17 amended: a request that is not a POST is not answered by the
\* middleware: on every path it is handed to the inner service as it came,
\* once, and the response is the one of the inner service.
C17_NonPostForwarded ==
    http.method \notin {"", "POST"} /\ pc # "arrived" =>
       /\ pc = "done"
       /\ forwards = 1
       /\ body = http.body /\ contentType = http.contentType
       /\ httpResponse = MethodNotAllowed
       /\ httpResponse # not_found

\* A GET to /rpc/v0.4, a path the middleware does not match, was answered.
C17_Witness ==
    /\ pc = "done" /\ http.method = "GET" /\ forwards = 1
    /\ http.path = "/rpc/v0.4"

\* C18: a POST to a recognized path with a body above the size limit is
\* answered with 413 and a JSON-RPC error object with id null; the inner
\* service is not called and no method is invoked.
C18_TooLarge ==
    /\ http.method = "POST" /\ http.path \in Routes
    /\ http.size > MaxRequestBodySize /\ pc # "arrived"
    => /\ pc = "done"
       /\ httpResponse.status = 413
       /\ httpResponse.kind = "object"
       /\ httpResponse.contentType = "application/json; charset=utf-8"
       /\ Len(httpResponse.items) = 1
       /\ httpResponse.items[1].id = Null /\ ~httpResponse.items[1].ok
       /\ forwards = 0
       /\ mode = "none" /\ requests = <<>> /\ events = <<>>

\* A well-formed request for a registered method, too large, was POSTed to
\* /rpc/v0.3 and answered.
C18_Witness ==
    /\ pc = "done" /\ http.method = "POST" /\ http.path = "/rpc/v0.3"
    /\ http.size = MaxRequestBodySize + 1
    /\ http.contentType = JsonContentType
    /\ http.body = Body(FALSE, "value", <<Req("pathfinder_getProof", EmptyArr, Str("1"))>>, FALSE)

\* C19: a POST to a recognized path with a body within the size limit, be
\* the body invalid JSON, JSON that is not a request, or a notification,
\* never unwinds out of the middleware, the handler or the router: the
\* request is not left without a response.
C19_NeverUnwinds ==
    /\ http.method = "POST" /\ http.path \in Routes
    /\ http.size <= MaxRequestBodySize
    => pc # "crashed"

\* C20: once the requests received have been answered, every counter
\* rpc_method_calls_total stands at the number of requests dispatched to
\* its method and every rpc_method_calls_failed_total at the number of those
\* that ended with an error (InvalidParams and panics included); while a
\* request is in flight no counter is ahead of that; and no counter exists
\* for a method that is not registered or for another version label.
C20_CountersExact ==
    /\ pc \in {"idle", "done"} => counters = expected
    /\ \A l \in DOMAIN counters : counters[l] <= Read(expected, l)
    /\ \A l \in DOMAIN counters :
          /\ l[1] \in {"rpc_method_calls_total", "rpc_method_calls_failed_total"}
          /\ l[2] \in DOMAIN methods
          /\ l[3] = version
    /\ \A m \in DOMAIN methods :
          Read(counters, Label("rpc_method_calls_failed_total", m, version))
             <= Read(counters, Label("rpc_method_calls_total", m, version))

\* After an earlier request, a batch was answered that holds a request with
\* params its method does not take and a request for an unknown method; by
\* then one call of success has failed out of two, and the one call of panic.
C20_Witness ==
    /\ pc = "done" /\ mode = "batch"
    /\ requests = << Req("success", Arr("7"), Str("1")), Req("foobar", Absent, Str("1")) >>
    /\ Read(counters, Label("rpc_method_calls_total", "success", "vTEST")) = 2
    /\ Read(counters, Label("rpc_method_calls_failed_total", "success", "vTEST")) = 1
    /\ Read(counters, Label("rpc_method_calls_total", "panic", "vTEST")) = 1
    /\ Read(counters, Label("rpc_method_calls_failed_total", "panic", "vTEST")) = 1
    /\ Read(counters, Label("rpc_method_calls_total", "foobar", "vTEST")) = 0

---------------------------------------------------------------------------
\* C21: an element that is no request is answered with the Invalid Request
\* error under the id null, alone or in a batch, also when the element
\* carries a well-formed id: that id is not echoed.
C21_UnparsedIdNull ==
    /\ \A i \in Handled :
          IsMalformed(requests[i]) =>
             /\ Cardinality(ResponsesOf(i)) = 1
             /\ \A k \in ResponsesOf(i) :
                   /\ responses[k] = INVALID_REQUEST
                   /\ responses[k].id = Null
                   /\ responses[k].code = -32600
    /\ (Answered /\ mode = "single" /\ IsMalformed(requests[1])) =>
          /\ httpResponse.kind = "object"
          /\ httpResponse.items[1].id = Null
          /\ httpResponse.items[1].code = -32600

\* an object with the id 1 and no method was sent alone and got the id null
C21_Witness ==
    /\ Answered
    /\ mode = "single"
    /\ requests = <<Elem("object", Str("2.0"), Absent, Absent, Num("1"))>>
    /\ httpResponse.kind = "object"
    /\ httpResponse.items[1].id = Null

---------------------------------------------------------------------------
\* The path without its trailing slash; "/" stays.
WithoutSlash(path) ==
    IF Len(path) > 1 /\ SubSeq(path, Len(path), Len(path)) = "/"
    THEN SubSeq(path, 1, Len(path) - 1)
    ELSE path

\* The rewrite table of each recognized path, written without its slash.
TableOf(path) ==
    CASE path \in {"/", "/rpc/v0.2"} ->
            << <<"starknet_", "v0.2_">>, <<"pathfinder_", "v0.1_">> >>
      [] path = "/rpc/v0.3" -> << <<"starknet_", "v0.3_">> >>
      [] path = "/rpc/pathfinder/v0.1" -> << <<"pathfinder_", "v0.1_">> >>

\* The middleware has just handed the body of a POST to the inner service.
Forwarded == pc = "received" /\ http.method = "POST"

\* C22: a recognized path and its variant with a trailing slash select the
\* same rewrite table: "/", "/rpc/v0.2" and "/rpc/v0.2/" rewrite starknet_
\* to v0.2_ and pathfinder_ to v0.1_; "/rpc/v0.3" and "/rpc/v0.3/" rewrite
\* starknet_ to v0.3_ only, so a pathfinder_ method is forwarded unchanged;
\* "/rpc/pathfinder/v0.1" and "/rpc/pathfinder/v0.1/" rewrite pathfinder_ to
\* v0.1_ only.
C22_SlashSameTable ==
    Forwarded =>
       /\ WithoutSlash(http.path) \in {"/", "/rpc/v0.2", "/rpc/v0.3", "/rpc/pathfinder/v0.1"}
       /\ Len(body.elems) = Len(http.body.elems)
       /\ \A i \in 1..Len(body.elems) :
             LET old == http.body.elems[i].method.v
                 new == body.elems[i].method.v
             IN  /\ new = prefix_method(old, TableOf(WithoutSlash(http.path)))
                 /\ (WithoutSlash(http.path) = "/rpc/v0.3" /\ starts_with(old, "pathfinder_"))
                       => new = old
                 /\ (WithoutSlash(http.path) = "/rpc/pathfinder/v0.1"
                        /\ starts_with(old, "starknet_"))
                       => new = old
                 /\ (WithoutSlash(http.path) \in {"/", "/rpc/v0.2"}
                        /\ starts_with(old, "pathfinder_"))
                       => new = "v0.1_" \o old

\* a pathfinder_ method posted to "/rpc/v0.3/" was forwarded unchanged
C22_Witness ==
    /\ Forwarded
    /\ http.path = "/rpc/v0.3/"
    /\ Len(http.body.elems) = 1
    /\ http.body.elems[1] = Req("pathfinder_getProof", EmptyArr, Str("1"))
    /\ body.elems[1].method = Str("pathfinder_getProof")

---------------------------------------------------------------------------
\* C23: a batch of one or more elements that are all notifications is
\* answered with an empty HTTP body, not with the array []; the array
\* returned for a batch is never empty.
C23_NotificationBatchEmptyBody ==
    /\ (/\ Answered
        /\ mode = "batch"
        /\ \A i \in 1..Len(requests) : IsNotification(requests[i]))
       => /\ Len(requests) >= 1
          /\ httpResponse = Http(200, "empty", <<>>)
          /\ responses = <<>>
    /\ httpResponse.kind = "array" => Len(httpResponse.items) >= 1

\* a batch of two notifications was answered with an empty body
C23_Witness ==
    /\ Answered
    /\ mode = "batch"
    /\ Len(requests) = 2
    /\ \A i \in 1..Len(requests) : IsNotification(requests[i])
    /\ httpResponse.kind = "empty"

---------------------------------------------------------------------------
\* C24: the handler takes a body for a batch exactly when the first byte of
\* the body that is not whitespace is `[`: a well-formed array with elements
\* is run element by element, with or without whitespace before it, and
\* nothing else is.
C24_BatchAfterWhitespace ==
    (/\ pc = "done"
     /\ content_type_allowed(contentType)
     /\ ~body.broken
     /\ body.elems # <<>>)
    => /\ (body.top = "array") <=> (mode = "batch")
       /\ body.top = "array" => requests = body.elems

---------------------------------------------------------------------------
\* What the processing of element e leaves in the log, from its lookup to
\* the end of its method.
LogOf(e) ==
    IF ~Dispatch(methods, e).call THEN <<>>
    ELSE LET request == ParseRequest(e)
             invoked == Invoke(methods[request.method], request.params)
         IN  <<Total(request.method), Invoked(request.method)>>
             \o (IF invoked.called THEN <<Called(request.method)>> ELSE <<>>)
             \o (IF invoked.encoded THEN <<Encoded(request.method)>> ELSE <<>>)
             \o (IF invoked.out.tag # "ok" THEN <<Failed(request.method)>> ELSE <<>>)
             \o <<Returned(request.method)>>

\* The log of the first n elements of the body, in source order.
RECURSIVE LogUpTo(_)
LogUpTo(n) == IF n = 0 THEN <<>> ELSE LogUpTo(n - 1) \o LogOf(body.elems[n])

\* C25: the elements of a batch are processed one after the other in source
\* order: when element i is looked up, counted or invoked, the processing of
\* every element before it is over (method completed or panicked, response
\* pushed), and nothing of a later element has happened.
C25_BatchSequential ==
    mode = "batch" =>
       /\ requests = body.elems
       /\ pc = "run" =>
             /\ events = LogUpTo(idx - 1)
             /\ \A k \in 1..Len(origins) : origins[k] < idx
       /\ pc = "invoking" =>
             /\ events = LogUpTo(idx - 1)
                            \o <<Total(ParseRequest(body.elems[idx]).method),
                                 Invoked(ParseRequest(body.elems[idx]).method)>>
             /\ \A k \in 1..Len(origins) : origins[k] < idx
       /\ pc = "done" => events = LogUpTo(Len(body.elems))
       /\ \A i \in Handled :
             Dispatch(methods, body.elems[i]).call => ResponsesOf(i) # {}

\* the second element of a batch is being invoked after the method of the
\* first one has panicked
C25_Witness ==
    /\ mode = "batch"
    /\ pc = "invoking"
    /\ idx = 2
    /\ body.elems[1] = Req("panic", EmptyArr, Num("2"))
    /\ ParseRequest(body.elems[2]).method = "success"
    /\ everPanicked
    /\ events = << Total("panic"), Invoked("panic"), Called("panic"), Failed("panic"),
                   Returned("panic"), Total("success"), Invoked("success") >>

---------------------------------------------------------------------------
\* The positions of the log with a mark of the given kind.
Marks(kind) == { n \in 1..Len(events) : events[n][1] = kind }

\* The element whose response the mark at position n of the log stands for:
\* the marks follow the dispatched elements in their order.
ElementOf(n) ==
    LET called == { i \in 1..Len(requests) : Dispatch(methods, requests[i]).call }
        j == Cardinality({ k \in Marks("response") : k <= n })
    IN  CHOOSE i \in called : Cardinality({ l \in called : l <= i }) = j

\* C26: for every dispatched request the call is counted in
\* rpc_method_calls_total before the method is invoked, and a failure is
\* counted in rpc_method_calls_failed_total before the response of the
\* request is built and returned.
C26_CountedBeforeReturn ==
    /\ \A n \in Marks("invoke") :
          /\ n > 1
          /\ events[n - 1] = Total(events[n][2])
    /\ \A n \in Marks("response") :
          \A k \in ResponsesOf(ElementOf(n)) :
             ~responses[k].ok =>
                /\ n > 1
                /\ events[n - 1] = Failed(events[n][2])
    /\ \A m \in DOMAIN methods :
          /\ Read(counters, Label("rpc_method_calls_total", m, version))
                >= Cardinality({ n \in Marks("rpc_method_calls_total") : events[n][2] = m })
          /\ Read(counters, Label("rpc_method_calls_failed_total", m, version))
                >= Cardinality({ n \in Marks("rpc_method_calls_failed_total") :
                                   events[n][2] = m })
    /\ pc = "invoking" =>
          Read(counters, Label("rpc_method_calls_total",
                               ParseRequest(requests[idx]).method, version)) >= 1

\* the response for a failed call of `internal` was returned after the
\* method had been invoked and the failure counted
C26_Witness ==
    /\ pc = "done"
    /\ mode = "single"
    /\ events = << Total("internal"), Invoked("internal"), Called("internal"),
                   Failed("internal"), Returned("internal") >>
    /\ ~responses[1].ok
    /\ Read(counters, Label("rpc_method_calls_failed_total", "internal", version)) >= 1

---------------------------------------------------------------------------
\* C27: the method table is never changed once the router is built: across
\* every step of every request (successful, failing, panicking, notification
\* or malformed) the registered names and the handler of each name stay
\* what build left, and the clone that serves a request has that table.
C27_TableNeverMutated ==
    [][/\ methods' = methods
       /\ DOMAIN methods' = DOMAIN MethodTable \cup {"internal"}]_vars

\* the router is idle again after a method has panicked and the method
\* `internal` has failed
C27_Witness ==
    /\ pc = "idle"
    /\ everPanicked
    /\ Read(counters, Label("rpc_method_calls_failed_total", "internal", version)) >= 1
    /\ Read(counters, Label("rpc_method_calls_total", "success", version)) >= 1
    /\ methods \in { TableFailing(d) : d \in InternalErrors }

---------------------------------------------------------------------------
\* The handled elements whose user function was called and returned its
\* domain error.
FailedWith ==
    { i \in Handled :
         /\ Dispatch(methods, requests[i]).call
         /\ methods[ParseRequest(requests[i]).method].behaviour = "err"
         /\ Invoke(methods[ParseRequest(requests[i]).method],
                   ParseRequest(requests[i]).params).called }

\* The domain error the method of element i returns.
ErrorOf(i) == methods[ParseRequest(requests[i]).method].error

\* C28: a domain error of any kind but gateway and internal reaches the
\* client as an application error with the code of the domain error and its
\* display text as message; a gateway or internal error becomes InternalError
\* (-32603); a domain error never becomes ParseError, InvalidRequest,
\* MethodNotFound or InvalidParams.
C28_BridgeKeepsCodeAndText ==
    \A i \in FailedWith :
       LET d == ErrorOf(i) IN
       /\ ResponsesOf(i) # {}
       /\ \A k \in ResponsesOf(i) :
             /\ ~responses[k].ok
             /\ responses[k].code \notin {-32700, -32600, -32601, -32602}
             /\ IF d.kind \in {"GatewayError", "Internal"}
                THEN /\ responses[k].code = -32603
                     /\ FromDomain(d).variant = "InternalError"
                ELSE /\ responses[k].code = DomainCode(d)
                     /\ responses[k].code # -32603
                     /\ responses[k].message = Display(d.kind)
                     /\ FromDomain(d).variant = "ApplicationError"

\* a function with an input failed with ProofLimitExceeded and the client
\* got the code 10000
C28_Witness ==
    /\ pc = "done"
    /\ mode = "single"
    /\ requests = <<Req("rejecting", Arr("42,23"), Num("1"))>>
    /\ ErrorOf(1).kind = "ProofLimitExceeded"
    /\ httpResponse.kind = "object"
    /\ httpResponse.items[1].code = 10000
    /\ httpResponse.items[1].message = "Too many storage keys requested"

---------------------------------------------------------------------------
\* C29: the error object of a response always has the members `code` and
\* `message`, and it has the member `data` as well when the error is of the
\* internal or unexpected kind.
C29_DataSerialized ==
    \A i \in FailedWith :
       \A k \in ResponsesOf(i) :
          LET error == Serialize(FromDomain(ErrorOf(i))) IN
          /\ {"code", "message"} \subseteq DOMAIN error
          /\ responses[k].code = error.code
          /\ responses[k].message = error.message
          /\ ErrorOf(i).kind \in {"UnexpectedError", "Internal", "GatewayError"}
                => "data" \in DOMAIN error

---------------------------------------------------------------------------
\* C30: an adapter of a function with an input decodes the params, calls
\* the function, maps its error and encodes its output, in this order: when
\* the params do not decode the outcome is InvalidParams and the function is
\* not called; when the function returns an error its output is not
\* encoded; when the output does not encode the outcome is InternalError.
C30_AdapterSteps ==
    /\ \A n \in Marks("call") : n > 1 /\ events[n - 1] = Invoked(events[n][2])
    /\ \A n \in Marks("encode") : n > 1 /\ events[n - 1] = Called(events[n][2])
    /\ (/\ pc = "done"
        /\ mode = "single"
        /\ Dispatch(methods, requests[1]).call
        /\ methods[ParseRequest(requests[1]).method].input)
       => LET m == ParseRequest(requests[1]).method
              h == methods[m]
              decoded == ParseRequest(requests[1]).params \in h.accepts
              response == httpResponse.items[1]
          IN  CASE ~decoded ->
                     /\ events = <<Total(m), Invoked(m), Failed(m), Returned(m)>>
                     /\ ~response.ok
                     /\ response.code = -32602
                     /\ response.message = "Invalid params"
                [] decoded /\ h.behaviour = "err" ->
                     /\ events = <<Total(m), Invoked(m), Called(m), Failed(m), Returned(m)>>
                     /\ ~response.ok
                     /\ response.code = Code(FromDomain(h.error))
                [] decoded /\ h.behaviour = "ok" /\ ~h.encodes ->
                     /\ events = <<Total(m), Invoked(m), Called(m), Encoded(m),
                                   Failed(m), Returned(m)>>
                     /\ ~response.ok
                     /\ response.code = -32603
                [] decoded /\ h.behaviour = "ok" /\ h.encodes ->
                     /\ events = <<Total(m), Invoked(m), Called(m), Encoded(m),
                                   Returned(m)>>
                     /\ response.ok
                     /\ response.result = h.value

\* the function was called with params that decode, its output did not
\* encode, and the client got an internal error
C30_Witness ==
    /\ pc = "done"
    /\ mode = "single"
    /\ requests = <<Req("unencodable", Arr("42,23"), Null)>>
    /\ Marks("encode") # {}
    /\ httpResponse.items[1].code = -32603

---------------------------------------------------------------------------
\* The middleware is done with a POST to a recognized path whose body is
\* within the size limit.
ReadPost ==
    /\ http.method = "POST"
    /\ http.path \in Routes
    /\ http.size <= MaxRequestBodySize
    /\ pc # "arrived"

\* C31: for a POST to a recognized path, a body whose read fails as
\* malformed is answered with 400 and a ParseError object with id null, and
\* a body whose read fails in the inner transport with 500 and an
\* InternalError object with id null; in both cases the inner service is
\* not called.
C31_ReadFailures ==
    /\ (ReadPost /\ http.fault) =>
          /\ pc = "done"
          /\ httpResponse.status = 500
          /\ httpResponse.kind = "object"
          /\ httpResponse.items =
                << [id |-> Null, ok |-> FALSE, result |-> "",
                    code |-> -32603, message |-> "Internal error"] >>
          /\ forwards = 0
          /\ mode = "none" /\ requests = <<>> /\ events = <<>>
    /\ (ReadPost /\ ~http.fault /\ FirstNonWhitespace(http.body) \notin {"{", "["}) =>
          /\ pc = "done"
          /\ httpResponse.status = 400
          /\ httpResponse.kind = "object"
          /\ httpResponse.items =
                << [id |-> Null, ok |-> FALSE, result |-> "",
                    code |-> -32700, message |-> "Parse error"] >>
          /\ forwards = 0
          /\ mode = "none" /\ requests = <<>> /\ events = <<>>

\* the read of a well-formed request posted to /rpc/v0.3 failed in the
\* transport and the request was answered with 500
C31_Witness ==
    /\ pc = "done"
    /\ http.method = "POST" /\ http.path = "/rpc/v0.3"
    /\ http.fault
    /\ http.body = Body(FALSE, "value", <<Req("starknet_chainId", Absent, Num("1"))>>, FALSE)
    /\ httpResponse.status = 500

---------------------------------------------------------------------------
\* The body of the request read by the middleware deserializes as a request
\* or as a batch of requests.
Deserialized ==
    /\ ~http.fault
    /\ IF FirstNonWhitespace(http.body) = "{"
       THEN FromSliceRequest(http.body)
       ELSE FirstNonWhitespace(http.body) = "[" /\ FromSliceBatch(http.body)

\* C32: the middleware never hands a partly rewritten body to the inner
\* service: when the inner service is called for a POST to a recognized
\* path, the rewrite of the path has been applied to the single request or
\* to every element of the batch; when the rewritten body cannot be
\* serialized, the answer is 500 with an InternalError object and the inner
\* service is not called.
C32_NoPartialRewrite ==
    /\ Forwarded =>
          /\ ~http.unserializable
          /\ body.top = http.body.top
          /\ Len(body.elems) = Len(http.body.elems)
          /\ \A i \in 1..Len(body.elems) :
                body.elems[i].method.v =
                   prefix_method(http.body.elems[i].method.v, Prefixes(http.path))
    /\ (ReadPost /\ Deserialized /\ http.unserializable) =>
          /\ pc = "done"
          /\ httpResponse.status = 500
          /\ httpResponse.kind = "object"
          /\ httpResponse.items[1].id = Null
          /\ httpResponse.items[1].code = -32603
          /\ forwards = 0
          /\ requests = <<>> /\ events = <<>>

\* a batch of two starknet_ requests posted to /rpc/v0.2 was handed to the
\* inner service with both methods renamed
C32_Witness ==
    /\ Forwarded
    /\ http.path = "/rpc/v0.2"
    /\ http.body.top = "array"
    /\ Len(http.body.elems) = 2
    /\ \A i \in 1..2 : http.body.elems[i].method = Str("starknet_chainId")
    /\ \A i \in 1..2 : body.elems[i].method = Str("v0.2_starknet_chainId")

---------------------------------------------------------------------------
\* The body posted is well-formed JSON and each of its values is a request
\* or a notification.
OnlyRequests ==
    /\ ~http.body.broken
    /\ http.body.elems # <<>>
    /\ \A i \in 1..Len(http.body.elems) :
          IsCallable(http.body.elems[i]) \/ IsNotification(http.body.elems[i])

\* C33: the rewrite changes nothing but method names: the body handed to
\* the inner service has the elements of the body posted, as many and in the
\* same order, each with its id, params and jsonrpc member as posted; a
\* request without id is handed on without id, so a notification stays a
\* notification.
C33_OnlyMethodsChange ==
    /\ Forwarded =>
          /\ body.top = http.body.top
          /\ Len(body.elems) = Len(http.body.elems)
          /\ \A i \in 1..Len(body.elems) :
                /\ body.elems[i].id = http.body.elems[i].id
                /\ body.elems[i].params = http.body.elems[i].params
                /\ body.elems[i].jsonrpc = http.body.elems[i].jsonrpc
    /\ (ReadPost /\ ~http.fault /\ ~http.unserializable /\ OnlyRequests) =>
          /\ pc # "crashed"
          /\ forwards = 1
          /\ \A i \in 1..Len(http.body.elems) :
                IsNotification(http.body.elems[i]) =>
                   (pc = "received" => IsNotification(body.elems[i]))

---------------------------------------------------------------------------
\* C34: a notification is dropped before the lookup of its method: the step
\* of run_request on a valid request without id invokes no handler, changes
\* no counter rpc_method_calls_total or rpc_method_calls_failed_total and
\* adds no response, also when the method is registered.
C34_NotificationDropped ==
    [][(pc = "run" /\ IsNotification(requests[idx])) =>
          /\ pc' # "invoking"
          /\ counters' = counters
          /\ events' = events
          /\ responses' = responses]_vars

\* a notification of the registered method success was sent alone and
\* handled: nothing was invoked or counted
C34_Witness ==
    /\ pc = "done"
    /\ mode = "single"
    /\ requests = <<Req("success", Absent, Absent)>>
    /\ "success" \in DOMAIN methods
    /\ events = <<>>
    /\ httpResponse.kind = "empty"

---------------------------------------------------------------------------
\* C35: in every state and for every label (method, version) the counter
\* rpc_method_calls_failed_total is at most the counter
\* rpc_method_calls_total, and both counters exist only for methods that are
\* keys of the method table.
C35_FailedAtMostTotal ==
    \A l \in DOMAIN counters :
       /\ l[2] \in DOMAIN methods
       /\ Read(counters, Label("rpc_method_calls_failed_total", l[2], l[3]))
             <= Read(counters, Label("rpc_method_calls_total", l[2], l[3]))

\* the one call of panic has failed, and of the calls of success one has
\* failed and one has not
C35_Witness ==
    /\ pc = "idle"
    /\ Read(counters, Label("rpc_method_calls_total", "panic", version)) = 1
    /\ Read(counters, Label("rpc_method_calls_failed_total", "panic", version)) = 1
    /\ Read(counters, Label("rpc_method_calls_total", "success", version)) = 2
    /\ Read(counters, Label("rpc_method_calls_failed_total", "success", version)) = 1

---------------------------------------------------------------------------
(* Requests that share the inner service of the middleware *)

\* The responses of the first n of the values, each run on its own.
RECURSIVE AloneUpTo(_, _)
AloneUpTo(values, n) ==
    IF n = 0 THEN <<>> ELSE AloneUpTo(values, n - 1) \o Alone(values[n])

\* The response to a request with content type ct and body b that is served
\* while nothing else is.
AloneResponse(ct, b) ==
    IF Split(ct, b).done
    THEN Split(ct, b).resp
    ELSE Assemble(Split(ct, b).mode,
                  AloneUpTo(Split(ct, b).values, Len(Split(ct, b).values)))

\* The ids of the requests in body b.
IdsOf(b) == { b.elems[i].id : i \in 1..Len(b.elems) }

\* C36: however the steps of requests served side by side on clones of one
\* router interleave, the response of each request is the one it gets when
\* it is served alone: no id or result of one request stands in the
\* response of another, and the responses of a batch keep the order of its
\* elements.
C36_ServedAsAlone ==
    \A t \in DOMAIN tasks :
       /\ tasks[t].pc # "crashed"
       /\ tasks[t].pc = "done" =>
             /\ tasks[t].httpResponse = AloneResponse(tasks[t].contentType, tasks[t].body)
             /\ \A k \in 1..Len(tasks[t].httpResponse.items) :
                   tasks[t].httpResponse.items[k].id \in IdsOf(tasks[t].body) \cup {Null}
       /\ tasks[t].pc \in {"run", "invoking"} =>
             tasks[t].responses = AloneUpTo(tasks[t].requests, tasks[t].idx - 1)

\* two batches with different ids are in flight: the second method of one
\* is running while the first method of the other is
C36_Witness ==
    /\ tasks # <<>>
    /\ tasks["a"].pc = "invoking" /\ tasks["a"].idx = 2
    /\ tasks["a"].body.elems = <<Req("success", Absent, Num("1")), Req("fail", Absent, Str("1"))>>
    /\ tasks["a"].responses # <<>>
    /\ tasks["b"].pc = "invoking" /\ tasks["b"].idx = 1
    /\ tasks["b"].body.elems = <<Req("panic", EmptyArr, Num("2")), Req("success", Absent, Num("1"))>>

\* One call of RpcVersioningService::call: where it stands, its request,
\* what inner.lock() returned to it, and its response.
LockTask(p, req, found, resp) == [pc |-> p, http |-> req, found |-> found, httpResponse |-> resp]

IdleLockTask == LockTask("idle", NoRequest, "none", NoHttp)

\* The requests sent while another may be in flight.
LockRequests ==
    { HttpRequest("POST", "/rpc/v0.3", JsonContentType, MaxRequestBodySize, FALSE,
                  Body(FALSE, "value", <<Req("starknet_chainId", Absent, Num("1"))>>, FALSE)),
      HttpRequest("POST", "/", JsonContentType, MaxRequestBodySize, FALSE,
                  Body(FALSE, "array", <<Req("pathfinder_getProof", EmptyArr, Str("1")),
                                         Req("starknet_chainId", Absent, Num("2"))>>, FALSE)),
      HttpRequest("POST", "/rpc/v0.4", JsonContentType, MaxRequestBodySize, FALSE,
                  Body(FALSE, "value", <<Req("starknet_chainId", Absent, Num("1"))>>, FALSE)),
      HttpRequest("POST", "/rpc/v0.3", JsonContentType, MaxRequestBodySize, FALSE,
                  Body(FALSE, "value", <<Req("starknet_chainId", Absent, Absent)>>, FALSE)),
      HttpRequest("POST", "/rpc/v0.3", JsonContentType, MaxRequestBodySize, TRUE,
                  Body(FALSE, "value", <<Req("starknet_chainId", Absent, Num("1"))>>, FALSE)),
      HttpRequest("GET", "/", JsonContentType, MaxRequestBodySize, FALSE,
                  Body(FALSE, "value", <<>>, FALSE)) }

\* The response of the inner service to request req forwarded with body b.
InnerResponse(req, b) ==
    IF req.method = "POST" THEN AloneResponse(req.contentType, b) ELSE MethodNotAllowed

LockInit ==
    /\ methods = register_routes
    /\ version = "v0.3"
    /\ recorder = FALSE
    /\ Silent
    /\ tasks = [t \in TaskIds |-> IdleLockTask]
    /\ mutex = Unlocked

\* Mutant: the guard lives as long as the future of the inner call.
DropGuard_kept(m) == m

\* The guard goes out of scope when call_inner returns.
DropGuard(m) == Mutex("none", m.poisoned)

\* The guard is dropped by a panic that unwinds through call_inner.
Poison(m) == Mutex("none", TRUE)

\* An HTTP request reaches the middleware on task t.
LockSend(t) ==
    /\ tasks[t].pc = "idle"
    /\ \E r \in LockRequests :
          tasks' = [tasks EXCEPT ![t] = LockTask("arrived", r, "none", NoHttp)]
    /\ UNCHANGED <<sequential, mutex>>

\* call and the future it returns, up to the response of the middleware or
\* the call of call_inner.
LockCall(t) ==
    /\ tasks[t].pc = "arrived"
    /\ LET did == Versioning(tasks[t].http, MaxRequestBodySize) IN
       tasks' = [tasks EXCEPT ![t] =
                    CASE did.kind = "respond" -> [@ EXCEPT !.pc = "done", !.httpResponse = did.resp]
                      [] did.kind = "panic" -> [@ EXCEPT !.pc = "crashed"]
                      [] did.kind = "forward" -> [@ EXCEPT !.pc = "locking"]]
    /\ UNCHANGED <<sequential, mutex>>

\* inner.lock() returns: no other task holds the guard.
LockAcquire(t) ==
    /\ tasks[t].pc = "locking"
    /\ mutex.holder = "none"
    /\ mutex' = Mutex(t, mutex.poisoned)
    /\ tasks' = [tasks EXCEPT ![t].pc = "locked",
                              ![t].found = IF mutex.poisoned THEN "poisoned" ELSE "ok"]
    /\ UNCHANGED sequential

\* The match on the guard in call_inner, to the return of call_inner: the
\* call of the inner service creates its future or panics; a poisoned mutex
\* is answered.
LockCreate(t) ==
    /\ tasks[t].pc = "locked"
    /\ IF tasks[t].found = "poisoned"
       THEN /\ tasks' = [tasks EXCEPT ![t].pc = "done", ![t].httpResponse = internal]
            /\ mutex' = DropGuard(mutex)
       ELSE \E panics \in BOOLEAN :
               IF panics
               THEN /\ tasks' = [tasks EXCEPT ![t].pc = "crashed"]
                    /\ mutex' = Poison(mutex)
               ELSE /\ tasks' = [tasks EXCEPT ![t].pc = "awaiting"]
                    /\ mutex' = DropGuard(mutex)
    /\ UNCHANGED sequential

\* The future of the inner service resolves.
LockAwait(t) ==
    /\ tasks[t].pc = "awaiting"
    /\ tasks' = [tasks EXCEPT ![t].pc = "done",
                              ![t].httpResponse =
                                 InnerResponse(tasks[t].http,
                                               Versioning(tasks[t].http, MaxRequestBodySize).body)]
    /\ UNCHANGED <<sequential, mutex>>

\* The response is sent or the connection is dropped; the next request.
LockFinish(t) ==
    /\ tasks[t].pc \in {"done", "crashed"}
    /\ tasks' = [tasks EXCEPT ![t] = IdleLockTask]
    /\ UNCHANGED <<sequential, mutex>>

LockNext ==
    \/ \E t \in TaskIds : LockSend(t)
    \/ \E t \in TaskIds : LockCall(t)
    \/ \E t \in TaskIds : LockAcquire(t)
    \/ \E t \in TaskIds : LockCreate(t)
    \/ \E t \in TaskIds : LockAwait(t)
    \/ \E t \in TaskIds : LockFinish(t)

LockSpec == LockInit /\ [][LockNext]_vars

\* C37: the middleware holds the mutex on the inner service only while it
\* creates the future of the inner call and has released it before that
\* future is awaited, so a request that waits for the inner service keeps no
\* other request from taking the lock and the holder of the lock never waits
\* for anything (no deadlock); a request that finds the mutex poisoned is
\* answered with 500 and an InternalError envelope and does not panic.
C37_LockOnlyWhileCreating ==
    /\ \A t \in DOMAIN tasks :
          /\ mutex.holder = t <=> tasks[t].pc = "locked"
          /\ tasks[t].pc = "locking" /\ mutex.holder = "none" => ENABLED LockAcquire(t)
          /\ tasks[t].found = "poisoned" =>
                /\ tasks[t].pc \in {"locked", "done"}
                /\ tasks[t].pc = "done" =>
                      /\ tasks[t].httpResponse.status = 500
                      /\ tasks[t].httpResponse.items[1].code = -32603
                      /\ tasks[t].httpResponse.items[1].id = Null
    /\ mutex.holder # "none" => ENABLED LockCreate(mutex.holder)

\* while one request waits for the inner service, another took the lock,
\* found it poisoned by an earlier panic of the inner call, and was answered
C37_Witness ==
    /\ tasks # <<>>
    /\ tasks["a"].pc = "awaiting" /\ tasks["a"].found = "ok"
    /\ tasks["b"].pc = "done" /\ tasks["b"].found = "poisoned"
    /\ tasks["b"].httpResponse = internal
    /\ mutex = Mutex("none", TRUE)

====
